---- MODULE Spec2Model ----
(***************************************************************************)
(* Model of the RSS-triggered action engine of japdash:                    *)
(*   rss_poller.py      RSSPoller (poll_all_feeds, poll_single_feed,       *)
(*                      trigger_actions_for_post,                          *)
(*                      execute_rss_triggered_action,                      *)
(*                      establish_baseline_for_account)                    *)
(*   rss_client.py      parse_rss_xml_feed, get_new_posts_from_xml_feed    *)
(*   app.py             schema, toggle_account_enabled,                    *)
(*                      refresh_execution_status                           *)
(*   screenshot_client  capture_screenshot                                 *)
(* Time is counted in seconds.  The server clock and the feed's pubDate    *)
(* are taken to be in the same time zone.                                  *)
(***************************************************************************)
EXTENDS Integers, Sequences, FiniteSets, Bags, TLC

\* ------------------------------------------------------------------ bounds
\* per specification: items a feed document holds at most, poll_all_feeds
\* calls, operator requests (toggle, baseline), clock advances and
\* refresh-status requests in one behaviour
MaxItems == 2
MaxCycles == 2
MaxOps == 1
RaceItems == 1
RaceCycles == 2
GateItems == 1
GateCycles == 1
GateOps == 1
ExecItems == 2
ExecCycles == 1
ExecTicks == 1
FrozenItems == 1
FrozenCycles == 1
FrozenOps == 1
ActItems == 1
ActOps == 3
BaseItems == 2
BaseOps == 2
BaseTicks == 1
TwinItems == 1
TwinCycles == 1
SkipCycles == 2
TargetCycles == 2
LlmCycles == 1
FeedsItems == 1
FeedsCycles == 1
LoopCycles == 3
LoopOps == 3
StopCycles == 2
LiveOps == 1
\* copies of one row that a table kept as a bag tells apart
MaxCopies == 3
StopOps == 3
MaxRefreshes == 3
QuickOps == 1
QuickCycles == 1

\* ------------------------------------------------------- program constants
Day == 86400               \* datetime('now', '-24 hours')
DefaultQuantity == 100     \* parameters.get('quantity', 100)
MaxComments == 100         \* max(1, min(quantity, 100))
MaxRetries == 3            \* ScreenshotClient.max_retries
RetryDelay == 5            \* ScreenshotClient.retry_delay
PollingInterval == 900     \* RSSPoller.polling_interval
ErrorCooldown == 300       \* time.sleep(300) of _polling_loop

\* ---------------------------------------------------------------- helpers
Null == <<>>
Some(x) == <<x>>
IsNull(v) == v = <<>>
Val(v) == v[1]

\* dict.get(key, default)
Get(d, key, default) == IF key \in DOMAIN d THEN d[key] ELSE default

\* Python's "a or b" on strings
OrStr(a, b) == IF a # "" THEN a ELSE b

Range(s) == {s[i] : i \in 1..Len(s)}

Max2(a, b) == IF a >= b THEN a ELSE b
Min2(a, b) == IF a <= b THEN a ELSE b

\* ------------------------------------------------------------------ world
FeedIds == {1}                     \* the rows rss_feeds starts with
AccountFeeds == {1, 2}             \* the same, with two accounts
AccountOf(f) == f                  \* rss_feeds.account_id
\* the _polling_loop thread and a request thread of /api/rss/poll-now
PollerIds == {"scheduled", "manual"}
\* the threads start_polling creates
LoopThreads == {"loop1", "loop2"}

Platform(a) == "Instagram"
Username(a) == "user"

\* ---------------------------------------------------- action parameter bags
\* actions.parameters (JSON); a key the operator did not send is absent
FixedParams == [quantity |-> 5]
RangeParams == [quantity |-> 5, use_range |-> TRUE,
                quantity_min |-> 2, quantity_max |-> 3]
LlmParams == [quantity |-> 2, use_llm_generation |-> TRUE,
              comment_directives |-> "be kind", custom_comments |-> "literal"]
BlankDirectiveParams == [quantity |-> 2, use_llm_generation |-> TRUE,
                         comment_directives |-> "  ", custom_comments |-> "literal"]

\* str.strip() on the directive texts in use
Strip(s) == IF s = "  " THEN "" ELSE s

\* str.lower() on the service names in use
Lower(s) ==
    CASE s = "Instagram Likes" -> "instagram likes"
      [] s = "Instagram Custom Comments" -> "instagram custom comments"
      [] s = "Instagram Followers" -> "instagram followers"
      [] OTHER -> s

\* 'comment' in service_name
ContainsComment(s) == s \in {"instagram custom comments"}

Action(id, a, svc, name, params) ==
    [id |-> id, account_id |-> a, jap_service_id |-> svc,
     service_name |-> name, parameters |-> params, is_active |-> TRUE]

\* the action lists an account is configured with (rows of table actions)
ActionConfigs(a) ==
    { <<>>,
      <<Action(1, a, 100, "Instagram Likes", FixedParams)>>,
      <<Action(1, a, 100, "Instagram Likes", RangeParams)>>,
      <<Action(1, a, 200, "Instagram Custom Comments", LlmParams)>>,
      <<Action(1, a, 200, "Instagram Custom Comments", BlankDirectiveParams)>>,
      <<Action(1, a, 100, "Instagram Likes", FixedParams),
        Action(2, a, 300, "Instagram Followers", RangeParams)>> }

\* ------------------------------------------------------------------ state
VARIABLES
    accounts,           \* table accounts: rss_status, enabled, url, rss_last_post
    actions,            \* table actions, per account in rowid order
    rss_feeds,          \* table rss_feeds: last_post_date, last_checked
    processed_posts,    \* table processed_posts (committed rows)
    execution_history,  \* table execution_history
    rss_poll_log,       \* table rss_poll_log (committed rows)
    screenshots,        \* table screenshots
    dbLock,             \* connection holding the store's write lock
    feedItems,          \* the feed document served for each feed, newest first
    japOrders,          \* orders accepted by the order service
    llmCalls,           \* requests received by the comment generator
    triggerCalls,       \* invocations of trigger_actions_for_post
    now,                \* wall clock
    pc,                 \* position of each poll_all_feeds caller
    poll,               \* locals of poll_all_feeds and poll_single_feed
    trig,               \* locals of trigger_actions_for_post
    exec,               \* locals of execute_rss_triggered_action
    result,             \* last value returned by poll_all_feeds
    base,               \* locals of establish_baseline_for_account requests
    sqlite_sequence,    \* largest actions.id handed out (AUTOINCREMENT)
    budget,             \* calls, requests and clock advances left to the behaviour
    rpc,                \* position of each request thread of the web server
    refresh,            \* locals of refresh_execution_status and quick_execute_action
    capture,            \* locals of the capture_screenshot threads
    is_running,         \* RSSPoller.is_running
    polling_thread,     \* RSSPoller.polling_thread
    loop,               \* position of each _polling_loop thread
    stopping            \* a stop_polling call is waiting in join

storeVars == <<accounts, actions, rss_feeds, processed_posts, execution_history,
               rss_poll_log, screenshots, dbLock>>
worldVars == <<feedItems, japOrders, llmCalls, now>>
pollVars == <<triggerCalls, pc, poll, trig, exec, result>>
opVars == <<base, sqlite_sequence>>
refreshVars == <<rpc, refresh, capture>>
loopVars == <<is_running, polling_thread, loop, stopping>>
vars == <<storeVars, worldVars, pollVars, opVars, refreshVars, budget, loopVars>>

Pollers == DOMAIN pc               \* the threads that call poll_all_feeds

Feeds == DOMAIN rss_feeds          \* rss_feeds.id; one feed per account

\* ------------------------------------------------- feed client (rss_client)
\* item_data built by parse_rss_xml_feed
ItemData(guid, link, pubDate) ==
    [title |-> "post", description |-> "", link |-> link, guid |-> guid,
     pub_date |-> pubDate]

\* the test with "at or after" in place of "after"
IsNewPostInclusive(item, since) ==
    /\ ~IsNull(Get(item, "pub_date", Null))
    /\ Val(item.pub_date) >= since

\* the test of get_new_posts_from_xml_feed: pub_date present and > since_date
IsNewPost(item, since) ==
    /\ ~IsNull(Get(item, "pub_date", Null))
    /\ Val(item.pub_date) > since

RECURSIVE GetNewPosts(_, _)
\* new_posts of get_new_posts_from_xml_feed, in document order
GetNewPosts(items, since) ==
    IF items = <<>> THEN <<>>
    ELSE IF IsNewPost(Head(items), since)
         THEN <<Head(items)>> \o GetNewPosts(Tail(items), since)
         ELSE GetNewPosts(Tail(items), since)

\* ---------------------------------------------- pure parts of rss_poller.py
\* the selection without its "last_post_date IS NOT NULL" condition
EligibleNoBaseline(f) ==
    /\ accounts[AccountOf(f)].rss_status = "active"
    /\ accounts[AccountOf(f)].enabled
    /\ \E i \in 1..Len(actions[AccountOf(f)]) : actions[AccountOf(f)][i].is_active

\* WHERE clause of the feed selection of poll_all_feeds
Eligible(f) ==
    /\ accounts[AccountOf(f)].rss_status = "active"
    /\ accounts[AccountOf(f)].enabled
    /\ ~IsNull(rss_feeds[f].last_post_date)
    /\ \E i \in 1..Len(actions[AccountOf(f)]) : actions[AccountOf(f)][i].is_active

\* ORDER BY rf.last_checked ASC NULLS FIRST
CheckedBefore(f, g) ==
    \/ IsNull(rss_feeds[f].last_checked)
    \/ /\ ~IsNull(rss_feeds[g].last_checked)
       /\ Val(rss_feeds[f].last_checked) <= Val(rss_feeds[g].last_checked)

\* a row dict of the selection
FeedRow(f) ==
    [id |-> f, account_id |-> AccountOf(f),
     last_post_date |-> rss_feeds[f].last_post_date,
     last_checked |-> rss_feeds[f].last_checked]

\* the selected feed ids, in each of the orders the ORDER BY allows
SelectActiveFeeds ==
    LET ids == {f \in Feeds : Eligible(f)}
    IN  { s \in [1..Cardinality(ids) -> ids] :
            /\ \A i, j \in DOMAIN s : i # j => s[i] # s[j]
            /\ \A i, j \in DOMAIN s : i < j => CheckedBefore(s[i], s[j]) }

\* since_date of poll_single_feed
SinceDate(feed) ==
    IF ~IsNull(feed.last_post_date) THEN Val(feed.last_post_date)
    ELSE IF ~IsNull(feed.last_checked) THEN Val(feed.last_checked)
    ELSE now - Day

\* post_guid = post.get('guid') or post.get('link', '')
PostGuid(post) == OrStr(Get(post, "guid", ""), Get(post, "link", ""))

\* a ledger that gives way to a new claim when the earlier one triggered
\* nothing
ClaimConflictRetried(rows, f, g) ==
    \E i \in 1..Len(rows) :
        rows[i].feed_id = f /\ rows[i].post_guid = g /\ rows[i].actions_triggered > 0

\* the table without its UNIQUE constraint: no INSERT ever conflicts
ClaimConflictNoUnique(rows, f, g) == FALSE

\* UNIQUE(feed_id, post_guid) of processed_posts
ClaimConflict(rows, f, g) ==
    \E i \in 1..Len(rows) : rows[i].feed_id = f /\ rows[i].post_guid = g

\* latest_post_date after one truly new post
LatestPostDate(latest, post) ==
    LET d == Get(post, "date_published", Null)
    IN  IF ~IsNull(d) /\ Val(d) > latest THEN Val(d) ELSE latest

\* the target taken from the account whatever the post links to
TargetUrlOfAccount(account, post) ==
    Get(account, "url", "https://instagram.com/user")

\* target_url of execute_rss_triggered_action
TargetUrl(account, post) ==
    OrStr(Get(post, "link", ""),
          OrStr(Get(post, "url", ""),
                Get(account, "url", "https://instagram.com/user")))

\* post_identifier of execute_rss_triggered_action
PostIdentifier(post) ==
    OrStr(Get(post, "link", ""), OrStr(Get(post, "url", ""), Get(post, "guid", "")))

\* the execution without its duplicate query
DuplicateExecutionUnchecked(hist, accountId, serviceId, targetUrl, t) == FALSE

\* the duplicate query: same account, service, target_url within 24 hours
DuplicateExecution(hist, accountId, serviceId, targetUrl, t) ==
    \E i \in 1..Len(hist) :
        /\ hist[i].account_id = Some(accountId)
        /\ hist[i].service_id = serviceId
        /\ hist[i].target_url = targetUrl
        /\ hist[i].created_at > t - Day

\* the quantity taken from 'quantity' whatever use_range says
QuantityChoicesFixed(params) == {Get(params, "quantity", DefaultQuantity)}

\* the quantities random.randint(min_qty, max_qty) can return, or the fixed one
QuantityChoices(params) ==
    LET quantity == Get(params, "quantity", DefaultQuantity)
    IN  IF Get(params, "use_range", FALSE)
        THEN Get(params, "quantity_min", quantity)..Get(params, "quantity_max", quantity)
        ELSE {quantity}

\* the test without its look at the directives
IsCommentServiceLlmEnabled(action, params) ==
    /\ ContainsComment(Lower(Get(action, "service_name", "")))
    /\ Get(params, "use_llm_generation", FALSE)

\* _is_comment_service_with_llm
IsCommentServiceWithLlm(action, params) ==
    /\ ContainsComment(Lower(Get(action, "service_name", "")))
    /\ Get(params, "use_llm_generation", FALSE)
    /\ Strip(Get(params, "comment_directives", "")) # ""

\* comment_count of _generate_comments_for_post
CommentCount(quantity) == Max2(1, Min2(quantity, MaxComments))

\* a table or a call log whose row order is not observed is a bag of rows
AddRow(bag, row) ==
    IF CopiesIn(row, bag) >= MaxCopies THEN bag ELSE bag (+) SetToBag({row})

RECURSIVE AddRows(_, _)
AddRows(bag, rows) ==
    IF rows = <<>> THEN bag ELSE AddRows(AddRow(bag, Head(rows)), Tail(rows))

\* ------------------------------------------------------ store write lock
\* sqlite allows one write transaction at a time.  A connection is named by
\* its thread and the function that opened it.
NoLock == <<>>
LockFree(p, c) == dbLock = NoLock \/ dbLock = <<p, c>>

\* "database is locked": the lock is held by another connection of the same
\* thread (which cannot release it meanwhile) or by the transaction that
\* another poll_all_feeds keeps open until its cycle ends.  A lock held by a
\* short transaction of another thread is waited for.
LockedOut(p, c) ==
    /\ dbLock # NoLock
    /\ dbLock # <<p, c>>
    /\ (dbLock[1] = p \/ dbLock[2] = "all")

Release(p, c) == IF dbLock = <<p, c>> THEN NoLock ELSE dbLock

\* ------------------------------------------------------------- initial state
\* accepted: the truly new posts of the current poll_single_feed
NoPoll ==
    [feeds |-> <<>>, fi |-> 0, feeds_processed |-> 0, total_new_posts |-> 0,
     total_actions_triggered |-> 0, errors |-> <<>>, errlog |-> <<>>,
     since |-> 0, total_posts_count |-> 0, potential |-> <<>>, pi |-> 0,
     truly_new |-> 0, latest |-> 0, actions_triggered |-> 0, pending |-> <<>>,
     accepted |-> <<>>]
NoTrig == [post |-> <<>>, account |-> <<>>, actions |-> <<>>, ai |-> 0, triggered |-> 0]
NoExec == [target_url |-> "", quantity |-> 0, custom_comments |-> "",
           llm_result |-> <<>>, order |-> 0, last |-> <<>>]
NoBase == [pc |-> "idle", latest |-> Null, last |-> Null]
\* a thread that start_polling has not created yet
NoLoop == [pc |-> "unborn", wait |-> 0]

AccountRow(a, status, enabled, url, feedUrl) ==
    [id |-> a, platform |-> Platform(a), username |-> Username(a),
     rss_status |-> status, enabled |-> enabled, url |-> url,
     rss_feed_url |-> feedUrl, rss_last_post |-> Null]

InitWorldWith(ids, threads, ledger) ==
    /\ now = 2 * Day
    /\ japOrders = <<>>
    /\ llmCalls = EmptyBag
    /\ triggerCalls = EmptyBag
    /\ processed_posts = ledger
    /\ rss_poll_log = EmptyBag
    /\ screenshots = <<>>
    /\ dbLock = NoLock
    /\ pc = [p \in threads |-> "idle"]
    /\ poll = [p \in threads |-> NoPoll]
    /\ trig = [p \in threads |-> NoTrig]
    /\ exec = [p \in threads |-> NoExec]
    /\ result = [p \in threads |-> Null]
    /\ base = [a \in ids |-> NoBase]
    /\ is_running = FALSE
    /\ polling_thread = Null
    /\ loop = [t \in LoopThreads |-> NoLoop]
    /\ stopping = FALSE

\* the same with an empty processed_posts
InitWorldOf(ids, threads) == InitWorldWith(ids, threads, <<>>)

InitWorld == InitWorldOf(FeedIds, PollerIds)

Budget(items, cycles, ops, ticks, refreshes) ==
    [items |-> items, cycles |-> cycles, ops |-> ops, ticks |-> ticks,
     refreshes |-> refreshes]

\* ------------------------------------------------------- poll_all_feeds
\* locals of poll_single_feed at its start, for the i-th selected feed
BeginFeed(pl, i) ==
    [pl EXCEPT !.fi = i, !.since = 0, !.total_posts_count = 0,
               !.potential = <<>>, !.pi = 0, !.truly_new = 0, !.latest = 0,
               !.actions_triggered = 0, !.pending = <<>>, !.accepted = <<>>]

\* the loop of poll_all_feeds moves on to the next feed, or to the commit
NextFeedPc(pl) == IF pl.fi < Len(pl.feeds) THEN "sf_parse" ELSE "all_commit"
NextFeed(pl) == IF pl.fi < Len(pl.feeds) THEN BeginFeed(pl, pl.fi + 1) ELSE pl

CurFeed(p) == poll[p].feeds[poll[p].fi]

\* the selection query and the loop set-up
SelectFeeds(p) ==
    /\ pc[p] = "idle"
    /\ \E s \in SelectActiveFeeds :
         LET rows == [i \in 1..Len(s) |-> FeedRow(s[i])]
             pl == [NoPoll EXCEPT !.feeds = rows]
         IN  /\ poll' = [poll EXCEPT ![p] = NextFeed(pl)]
             /\ pc' = [pc EXCEPT ![p] = NextFeedPc(pl)]
    /\ result' = [result EXCEPT ![p] = Null]
    /\ UNCHANGED <<storeVars, worldVars, triggerCalls, trig, exec, opVars, refreshVars>>

\* one of the calls of poll_all_feeds the behaviour is given
PollAllFeeds(p) ==
    /\ budget.cycles > 0
    /\ budget' = [budget EXCEPT !.cycles = @ - 1]
    /\ SelectFeeds(p)

\* poll_all_feeds called by a thread that is not a _polling_loop of the model
PollAllStart(p) ==
    /\ PollAllFeeds(p)
    /\ UNCHANGED loopVars

\* poll_single_feed raised: its connection is closed without commit
FeedRaised(p) ==
    /\ poll' = [poll EXCEPT ![p].pending = <<>>]
    /\ dbLock' = Release(p, "single")
    /\ pc' = [pc EXCEPT ![p] = "all_error"]

\* parse_rss_xml_feed for the total count
ParseFeed(p) ==
    /\ pc[p] = "sf_parse"
    /\ \/ /\ poll' = [poll EXCEPT
                  ![p].since = SinceDate(CurFeed(p)),
                  ![p].total_posts_count = Len(feedItems[CurFeed(p).id])]
          /\ pc' = [pc EXCEPT ![p] = "sf_new"]
          /\ UNCHANGED dbLock
       \/ FeedRaised(p)
    /\ UNCHANGED <<accounts, actions, rss_feeds, processed_posts, execution_history,
                   rss_poll_log, screenshots, worldVars, triggerCalls, trig, exec,
                   result, budget, opVars, refreshVars,
                   loopVars>>

\* get_new_posts_from_xml_feed and the loop set-up
FetchNewPosts(p) ==
    /\ pc[p] = "sf_new"
    /\ \/ /\ poll' = [poll EXCEPT
                  ![p].potential = GetNewPosts(feedItems[CurFeed(p).id], poll[p].since),
                  ![p].pi = 1,
                  ![p].latest = poll[p].since]
          /\ pc' = [pc EXCEPT ![p] = "item"]
          /\ UNCHANGED dbLock
       \/ FeedRaised(p)
    /\ UNCHANGED <<accounts, actions, rss_feeds, processed_posts, execution_history,
                   rss_poll_log, screenshots, worldVars, triggerCalls, trig, exec,
                   result, budget, opVars, refreshVars,
                   loopVars>>

\* the error handler of poll_all_feeds: INSERT the error entry (uncommitted)
LogFeedError(p) ==
    /\ pc[p] = "all_error"
    /\ \/ /\ LockFree(p, "all")
          /\ LET pl == [poll[p] EXCEPT
                          !.errors = Append(@, CurFeed(p).id),
                          !.errlog = Append(@, [feed_id |-> CurFeed(p).id,
                                                posts_found |-> 0, new_posts |-> 0,
                                                actions_triggered |-> 0,
                                                status |-> "error"])]
             IN  /\ poll' = [poll EXCEPT ![p] = NextFeed(pl)]
                 /\ pc' = [pc EXCEPT ![p] = NextFeedPc(pl)]
          /\ dbLock' = <<p, "all">>
          /\ UNCHANGED result
       \/ /\ LockedOut(p, "all")
          /\ poll' = [poll EXCEPT ![p] = NoPoll]
          /\ pc' = [pc EXCEPT ![p] = "idle"]
          /\ dbLock' = Release(p, "all")
          /\ result' = [result EXCEPT ![p] = Some([status |-> "exception"])]
    /\ UNCHANGED <<accounts, actions, rss_feeds, processed_posts, execution_history,
                   rss_poll_log, screenshots, worldVars, triggerCalls, trig, exec,
                   budget, opVars, refreshVars,
                   loopVars>>

\* conn.commit() and the summary returned by poll_all_feeds
PollAllCommit(p) ==
    /\ pc[p] = "all_commit"
    /\ rss_poll_log' = AddRows(rss_poll_log, poll[p].errlog)
    /\ dbLock' = Release(p, "all")
    /\ result' = [result EXCEPT ![p] =
                    Some([status |-> "completed",
                          total_feeds |-> Len(poll[p].feeds),
                          feeds_processed |-> poll[p].feeds_processed,
                          total_new_posts |-> poll[p].total_new_posts,
                          total_actions_triggered |-> poll[p].total_actions_triggered,
                          errors |-> poll[p].errors])]
    /\ poll' = [poll EXCEPT ![p] = NoPoll]
    /\ pc' = [pc EXCEPT ![p] = "idle"]
    /\ UNCHANGED <<accounts, actions, rss_feeds, processed_posts, execution_history,
                   screenshots, worldVars, triggerCalls, trig, exec, budget, opVars,
                   refreshVars,
                   loopVars>>

\* ------------------------------------------------------ poll_single_feed
CurPost(p) == poll[p].potential[poll[p].pi]

RECURSIVE ApplyPending(_, _)
\* rows after the pending UPDATEs of actions_triggered are committed
ApplyPending(rows, pending) ==
    IF pending = <<>> THEN rows
    ELSE LET u == Head(pending)
         IN  ApplyPending(
                [i \in 1..Len(rows) |->
                    IF rows[i].feed_id = u.feed_id /\ rows[i].post_guid = u.post_guid
                    THEN [rows[i] EXCEPT !.actions_triggered = u.actions_triggered]
                    ELSE rows[i]],
                Tail(pending))

\* a skipped item counted among the new posts
SkipItemCounted(pl) == [pl EXCEPT !.pi = @ + 1, !.truly_new = @ + 1]

\* "continue" in the loop over potential_new_posts
SkipItem(pl) == [pl EXCEPT !.pi = @ + 1]

\* an INSERT that stays in the open transaction
ClaimUncommitted(rows, pending, row) == rows

\* the committed rows after INSERT INTO processed_posts and conn.commit(): the
\* commit carries what the transaction held
ClaimCommitted(rows, pending, row) == Append(ApplyPending(rows, pending), row)

\* one iteration of the loop over potential_new_posts, up to the call of
\* trigger_actions_for_post: the identity, the INSERT and its commit
ClaimItem(p) ==
    /\ pc[p] = "item"
    /\ poll[p].pi <= Len(poll[p].potential)
    /\ LET post == CurPost(p)
           f == CurFeed(p).id
           g == PostGuid(post)
       IN  IF g = ""
           THEN \* continue
                /\ poll' = [poll EXCEPT ![p] = SkipItem(@)]
                /\ UNCHANGED <<pc, processed_posts, dbLock>>
           ELSE \/ /\ LockFree(p, "single")
                   /\ ClaimConflict(processed_posts, f, g)
                   \* IntegrityError: skip; the transaction stays open
                   /\ poll' = [poll EXCEPT ![p] = SkipItem(@)]
                   /\ dbLock' = <<p, "single">>
                   /\ UNCHANGED <<pc, processed_posts>>
                \/ /\ LockFree(p, "single")
                   /\ ~ClaimConflict(processed_posts, f, g)
                   \* inserted and committed, with what the transaction held
                   /\ processed_posts' =
                        ClaimCommitted(processed_posts, poll[p].pending,
                                       [feed_id |-> f, post_guid |-> g,
                                        post_url |-> Get(post, "link", ""),
                                        actions_triggered |-> 0])
                   /\ dbLock' = NoLock
                   /\ poll' = [poll EXCEPT
                                 ![p].pending = <<>>,
                                 ![p].truly_new = @ + 1,
                                 ![p].accepted = Append(@, post),
                                 ![p].latest = LatestPostDate(@, post)]
                   /\ pc' = [pc EXCEPT ![p] = "trig"]
                \/ /\ LockedOut(p, "single")
                   \* OperationalError, caught by the loop body's handler
                   /\ poll' = [poll EXCEPT ![p].pi = @ + 1]
                   /\ UNCHANGED <<pc, processed_posts, dbLock>>
    /\ UNCHANGED <<accounts, actions, rss_feeds, execution_history, rss_poll_log,
                   screenshots, worldVars, triggerCalls, trig, exec, result, budget,
                   opVars, refreshVars,
                   loopVars>>

\* after trigger_actions_for_post returned: UPDATE processed_posts (uncommitted)
PostUpdate(p) ==
    /\ pc[p] = "post_update"
    /\ \/ /\ LockFree(p, "single")
          /\ poll' = [poll EXCEPT
                        ![p].actions_triggered = @ + trig[p].triggered,
                        ![p].pending = Append(@, [feed_id |-> CurFeed(p).id,
                                                  post_guid |-> PostGuid(CurPost(p)),
                                                  actions_triggered |-> trig[p].triggered]),
                        ![p].pi = @ + 1]
          /\ dbLock' = <<p, "single">>
       \/ /\ LockedOut(p, "single")
          /\ poll' = [poll EXCEPT
                        ![p].actions_triggered = @ + trig[p].triggered,
                        ![p].pi = @ + 1]
          /\ UNCHANGED dbLock
    /\ pc' = [pc EXCEPT ![p] = "item"]
    /\ trig' = [trig EXCEPT ![p] = NoTrig]
    /\ exec' = [exec EXCEPT ![p] = NoExec]
    /\ UNCHANGED <<accounts, actions, rss_feeds, processed_posts, execution_history,
                   rss_poll_log, screenshots, worldVars, triggerCalls, result, budget,
                   opVars, refreshVars,
                   loopVars>>

\* last_post_date written by poll_single_feed
AdvancedPostDate(latest) == latest + 1

\* a feed update that writes last_post_date whatever the poll found
FeedDateAlwaysAdvanced(old, truly_new, latest) == Some(AdvancedPostDate(latest))

\* rss_feeds.last_post_date after "Update feed metadata"
FeedDateAfterPoll(old, truly_new, latest) ==
    IF truly_new > 0 THEN Some(AdvancedPostDate(latest)) ELSE old

\* a feed counted as processed without its new posts
FeedCountedWithoutPosts(pl) ==
    [pl EXCEPT !.pending = <<>>,
               !.feeds_processed = @ + 1,
               !.total_actions_triggered = @ + pl.actions_triggered]

\* poll_all_feeds adds the result of poll_single_feed to its totals
FeedCounted(pl) ==
    [pl EXCEPT !.pending = <<>>,
               !.feeds_processed = @ + 1,
               !.total_new_posts = @ + pl.truly_new,
               !.total_actions_triggered = @ + pl.actions_triggered]

\* the loop over potential_new_posts is exhausted: "Update feed metadata",
\* the poll log entry, the commit and the return
FinishFeed(p) ==
    /\ pc[p] = "item"
    /\ poll[p].pi > Len(poll[p].potential)
    /\ LET f == CurFeed(p).id
           pl == poll[p]
       IN  \/ /\ LockFree(p, "single")
              /\ rss_feeds' = [rss_feeds EXCEPT
                    ![f].last_checked = Some(now),
                    ![f].last_post_date = FeedDateAfterPoll(@, pl.truly_new, pl.latest)]
              /\ rss_poll_log' = AddRow(rss_poll_log,
                    [feed_id |-> f, posts_found |-> pl.total_posts_count,
                     new_posts |-> pl.truly_new,
                     actions_triggered |-> pl.actions_triggered,
                     status |-> IF pl.truly_new = 0 THEN "no_new_posts" ELSE "success"])
              /\ processed_posts' = ApplyPending(processed_posts, pl.pending)
              /\ dbLock' = NoLock
              /\ LET done == FeedCounted(pl)
                 IN  /\ poll' = [poll EXCEPT ![p] = NextFeed(done)]
                     /\ pc' = [pc EXCEPT ![p] = NextFeedPc(done)]
           \/ /\ LockedOut(p, "single")
              /\ FeedRaised(p)
              /\ UNCHANGED <<rss_feeds, rss_poll_log, processed_posts>>
    /\ UNCHANGED <<accounts, actions, execution_history, screenshots, worldVars,
                   triggerCalls, trig, exec, result, budget, opVars, refreshVars,
                   loopVars>>

\* ----------------------------------------------- trigger_actions_for_post
RECURSIVE ActiveActions(_)
\* SELECT * FROM actions WHERE account_id = ? AND is_active = 1
ActiveActions(rows) ==
    IF rows = <<>> THEN <<>>
    ELSE IF Head(rows).is_active THEN <<Head(rows)>> \o ActiveActions(Tail(rows))
         ELSE ActiveActions(Tail(rows))

\* the account row and its active actions are read
TriggerRead(p) ==
    /\ pc[p] = "trig"
    /\ LET a == CurFeed(p).account_id
           acts == ActiveActions(actions[a])
       IN  /\ trig' = [trig EXCEPT ![p] =
                         [post |-> CurPost(p), account |-> accounts[a],
                          actions |-> acts, ai |-> 1, triggered |-> 0]]
           /\ pc' = [pc EXCEPT ![p] = IF acts = <<>> THEN "post_update" ELSE "exec_check"]
    /\ triggerCalls' = AddRow(triggerCalls,
                              [feed_id |-> CurFeed(p).id, post_guid |-> PostGuid(CurPost(p))])
    /\ UNCHANGED <<storeVars, worldVars, poll, exec, result, budget, opVars, refreshVars,
                   loopVars>>

CurAction(p) == trig[p].actions[trig[p].ai]

Skipped(msg) == [success |-> FALSE, skipped |-> TRUE, error |-> msg]
Failed(msg) == [success |-> FALSE, skipped |-> FALSE, error |-> msg]
Succeeded(order) == [success |-> TRUE, skipped |-> FALSE, order_id |-> order]

\* a loop over the actions that ends at the first execution without success
ExecReturnStops(p, ex, res) ==
    /\ exec' = [exec EXCEPT ![p] = [ex EXCEPT !.last = Some(res)]]
    /\ trig' = [trig EXCEPT ![p].ai = @ + 1,
                            ![p].triggered = IF res.success THEN @ + 1 ELSE @]
    /\ pc' = [pc EXCEPT ![p] =
                 IF trig[p].ai < Len(trig[p].actions) /\ res.success
                 THEN "exec_check" ELSE "post_update"]

\* execute_rss_triggered_action, its locals being ex, returns res to the loop
\* over the actions
ExecReturnFrom(p, ex, res) ==
    /\ exec' = [exec EXCEPT ![p] = [ex EXCEPT !.last = Some(res)]]
    /\ trig' = [trig EXCEPT ![p].ai = @ + 1,
                            ![p].triggered = IF res.success THEN @ + 1 ELSE @]
    /\ pc' = [pc EXCEPT ![p] =
                 IF trig[p].ai < Len(trig[p].actions) THEN "exec_check" ELSE "post_update"]

ExecReturn(p, res) == ExecReturnFrom(p, exec[p], res)

\* -------------------------------------------- execute_rss_triggered_action
\* target URL, duplicate query, quantity
ExecCheck(p) ==
    /\ pc[p] = "exec_check"
    /\ LET action == CurAction(p)
           params == action.parameters
           post == trig[p].post
           target == TargetUrl(trig[p].account, post)
       IN  IF /\ PostIdentifier(post) # ""
              /\ DuplicateExecution(execution_history, trig[p].account.id,
                                    action.jap_service_id, target, now)
           THEN ExecReturn(p, Skipped("Duplicate execution prevented"))
           ELSE IF QuantityChoices(params) = {}
           THEN \* random.randint raises ValueError, caught by the handler
                ExecReturn(p, Failed("exception"))
           ELSE \E q \in QuantityChoices(params) :
                  /\ exec' = [exec EXCEPT ![p] =
                                [target_url |-> target, quantity |-> q,
                                 custom_comments |-> Get(params, "custom_comments", ""),
                                 llm_result |-> Null, order |-> 0,
                                 last |-> exec[p].last]]
                  /\ pc' = [pc EXCEPT ![p] =
                              IF IsCommentServiceWithLlm(action, params)
                              THEN "exec_llm" ELSE "exec_order"]
                  /\ UNCHANGED trig
    /\ UNCHANGED <<storeVars, worldVars, triggerCalls, poll, result, budget, opVars,
                   refreshVars,
                   loopVars>>

\* what the comment generator answers: comments, an error, or no comment
LlmOutcomes == {"comments", "error", "empty"}

\* the dict returned by generate_comments
LlmResult(outcome) ==
    IF outcome = "comments" THEN [success |-> TRUE, comments |-> "generated"]
    ELSE [success |-> FALSE, error |-> outcome]

\* a caller that takes every answer for a success
LlmFailedIgnored(res) == FALSE

\* not llm_result['success']
LlmFailed(res) == ~res.success

\* _generate_comments_for_post and the branch on its result
ExecLlm(p) ==
    /\ pc[p] = "exec_llm"
    /\ llmCalls' = AddRow(llmCalls,
                          [comment_count |-> CommentCount(exec[p].quantity),
                           custom_input |-> Get(CurAction(p).parameters,
                                                "comment_directives",
                                                "Generate engaging and relevant comments")])
    /\ \E outcome \in LlmOutcomes :
         LET res == LlmResult(outcome)
             got == [exec[p] EXCEPT !.llm_result = Some(res)]
         IN  IF LlmFailed(res)
             THEN /\ ExecReturnFrom(p, got, Skipped("LLM generation failed"))
                  /\ UNCHANGED japOrders
             ELSE IF "comments" \in DOMAIN res
             THEN /\ exec' = [exec EXCEPT ![p].custom_comments = res.comments,
                                          ![p].llm_result = Some(res)]
                  /\ pc' = [pc EXCEPT ![p] = "exec_order"]
                  /\ UNCHANGED <<trig, japOrders>>
             ELSE \* KeyError, caught by the handler
                  /\ ExecReturnFrom(p, got, Failed("exception"))
                  /\ UNCHANGED japOrders
    /\ UNCHANGED <<storeVars, feedItems, now, triggerCalls, poll, result,
                   budget, opVars, refreshVars,
                   loopVars>>

\* the order service accepts the order
OrderAccepted(p) ==
    /\ japOrders' = Append(japOrders,
                           [service_id |-> CurAction(p).jap_service_id,
                            link |-> exec[p].target_url,
                            quantity |-> exec[p].quantity,
                            comments |-> exec[p].custom_comments,
                            account_id |-> trig[p].account.id])
    /\ exec' = [exec EXCEPT ![p].order = Len(japOrders) + 1]
    /\ pc' = [pc EXCEPT ![p] = "exec_insert"]
    /\ UNCHANGED trig

\* a refusal reported as a skipped action
OrderRefusedSkipped(p) ==
    /\ ExecReturn(p, Skipped("order error"))
    /\ UNCHANGED japOrders

\* 'error' in order_response
OrderRefused(p) ==
    /\ ExecReturn(p, Failed("order error"))
    /\ UNCHANGED japOrders

\* jap_client.create_order and the branch on its response
ExecOrder(p) ==
    /\ pc[p] = "exec_order"
    /\ OrderAccepted(p) \/ OrderRefused(p)
    /\ UNCHANGED <<storeVars, feedItems, llmCalls, now, triggerCalls, poll, result,
                   budget, opVars, refreshVars,
                   loopVars>>

HistoryRow(id, order, type, account, action, url, quantity, status, t) ==
    [id |-> id, jap_order_id |-> order, execution_type |-> type,
     platform |-> account.platform, target_url |-> url,
     service_id |-> action.jap_service_id, service_name |-> action.service_name,
     quantity |-> quantity, status |-> status, account_id |-> Some(account.id),
     created_at |-> t]

\* INSERT INTO execution_history, commit, return success
ExecInsert(p) ==
    /\ pc[p] = "exec_insert"
    /\ \/ /\ LockFree(p, "exec")
          /\ execution_history' = Append(execution_history,
                HistoryRow(Len(execution_history) + 1, exec[p].order, "rss_trigger",
                           trig[p].account, CurAction(p), exec[p].target_url,
                           exec[p].quantity, "pending", now))
          /\ ExecReturn(p, Succeeded(exec[p].order))
       \/ /\ LockedOut(p, "exec")
          /\ ExecReturn(p, Failed("database is locked"))
          /\ UNCHANGED execution_history
    /\ UNCHANGED <<accounts, actions, rss_feeds, processed_posts, rss_poll_log,
                   screenshots, dbLock, worldVars, triggerCalls, poll, result, budget,
                   opVars, refreshVars,
                   loopVars>>

\* ----------------------------------------- establish_baseline_for_account
RECURSIVE MaxPubDate(_)
\* the most recent parseable pub_date of the items, or Null
MaxPubDate(items) ==
    IF items = <<>> THEN Null
    ELSE LET rest == MaxPubDate(Tail(items))
             d == Get(Head(items), "pub_date", Null)
         IN  IF IsNull(d) THEN rest
             ELSE IF IsNull(rest) \/ Val(d) > Val(rest) THEN d ELSE rest

\* the account is read and the feed is fetched and parsed: the fetch fails,
\* or the latest parseable date of the document is kept for the update
FetchBaseline(a) ==
    IF accounts[a].rss_feed_url = ""
    THEN base' = [base EXCEPT ![a].last = Some([success |-> FALSE])]
    ELSE \/ base' = [base EXCEPT ![a] = [pc |-> "write",
                                          latest |-> MaxPubDate(feedItems[a]),
                                          last |-> Null]]
         \/ base' = [base EXCEPT ![a].last = Some([success |-> FALSE])]

\* POST /api/accounts/<id>/rss-baseline
BaselineFetch(a) ==
    /\ base[a].pc = "idle"
    /\ budget.ops > 0
    /\ budget' = [budget EXCEPT !.ops = @ - 1]
    /\ FetchBaseline(a)
    /\ UNCHANGED <<storeVars, worldVars, pollVars, refreshVars, sqlite_sequence,
                   loopVars>>

\* the current time, whatever the document holds
BaselineDateNow(latest) == Some(now)

\* the value stored as baseline: the latest post date, else the current time
BaselineDate(latest) == IF ~IsNull(latest) THEN latest ELSE Some(now)

\* UPDATE accounts, UPDATE rss_feeds, commit
BaselineWrite(a) ==
    /\ base[a].pc = "write"
    /\ \/ /\ LockFree("operator", "baseline")
          /\ accounts' = [accounts EXCEPT ![a].rss_last_post = BaselineDate(base[a].latest)]
          /\ rss_feeds' = [rss_feeds EXCEPT
                             ![a].last_post_date = BaselineDate(base[a].latest),
                             ![a].last_checked = Some(now)]
          /\ base' = [base EXCEPT ![a] = [pc |-> "idle", latest |-> Null,
                         last |-> Some([success |-> TRUE,
                                        latest_post_date |-> BaselineDate(base[a].latest)])]]
       \/ /\ LockedOut("operator", "baseline")
          /\ base' = [base EXCEPT ![a] = [pc |-> "idle", latest |-> Null,
                                          last |-> Some([success |-> FALSE])]]
          /\ UNCHANGED <<accounts, rss_feeds>>
    /\ UNCHANGED <<actions, processed_posts, execution_history, rss_poll_log,
                   screenshots, dbLock, worldVars, pollVars, refreshVars, budget,
                   sqlite_sequence, loopVars>>

\* ------------------------------------------------ toggle_account_enabled
ToggleEnabled(a) ==
    /\ budget.ops > 0
    /\ budget' = [budget EXCEPT !.ops = @ - 1]
    /\ dbLock = NoLock
    /\ accounts' = [accounts EXCEPT ![a].enabled = ~@]
    /\ UNCHANGED <<actions, rss_feeds, processed_posts, execution_history,
                   rss_poll_log, screenshots, dbLock, worldVars, pollVars, opVars,
                   refreshVars,
                   loopVars>>

\* ------------------------------------------------------------ environment
\* the items a feed can publish: guid, link, and whether pubDate parses
ItemKinds == { <<"g1", "L1", TRUE>>, <<"", "L1", TRUE>>, <<"", "", TRUE>> }

PublishedItem(kind, t) == ItemData(kind[1], kind[2], IF kind[3] THEN Some(t) ELSE Null)

\* the feed publishes an item: it becomes the first item of the document
Publish(f) ==
    /\ Len(feedItems[f]) < budget.items
    /\ \E kind \in ItemKinds :
         /\ \A i \in 1..Len(feedItems[f]) :
               <<feedItems[f][i].guid, feedItems[f][i].link>> # <<kind[1], kind[2]>>
         /\ feedItems' = [feedItems EXCEPT ![f] = <<PublishedItem(kind, now)>> \o @]
    /\ UNCHANGED <<storeVars, japOrders, llmCalls, now, pollVars, opVars,
                   refreshVars, budget,
                   loopVars>>

\* a day passes
Tick ==
    /\ budget.ticks > 0
    /\ budget' = [budget EXCEPT !.ticks = @ - 1]
    /\ now' = now + Day
    /\ UNCHANGED <<storeVars, feedItems, japOrders, llmCalls, pollVars, opVars,
                   refreshVars,
                   loopVars>>

\* ---------------------------------------------------------- specification
\* the configurations an account and its feed start in: every action list
\* with the four polling conditions met, and each condition unmet in turn
Config(st, en, w, acts) == [status |-> st, enabled |-> en, watermark |-> w, acts |-> acts]

Baselined == Some(2 * Day - 2)

\* the four polling conditions met, and each of them unmet in turn
GateConfigs(a) ==
    LET likes == <<Action(1, a, 100, "Instagram Likes", FixedParams)>>
    IN  { Config("active", TRUE, Baselined, likes),
          Config("failed", TRUE, Baselined, likes),
          Config("active", FALSE, Baselined, likes),
          Config("active", TRUE, Null, likes),
          Config("active", TRUE, Baselined, <<>>) }

\* every action list, on an account that is polled
ExecConfigs(a) ==
    { Config("active", TRUE, Baselined, acts) : acts \in ActionConfigs(a) \ {<<>>} }

\* the largest id among the rows of table actions
LastActionId(rows) ==
    LET ids == {0} \cup UNION {{rows[a][i].id : i \in 1..Len(rows[a])} : a \in DOMAIN rows}
    IN  CHOOSE m \in ids : \A i \in ids : i <= m

InitConfigured(cf) ==
    /\ accounts = [a \in DOMAIN cf |->
                     AccountRow(a, cf[a].status, cf[a].enabled, "", "feed.xml")]
    /\ actions = [a \in DOMAIN cf |-> cf[a].acts]
    /\ sqlite_sequence = LastActionId([a \in DOMAIN cf |-> cf[a].acts])
    /\ rss_feeds = [f \in DOMAIN cf |->
                      [last_post_date |-> cf[f].watermark,
                       last_checked |-> cf[f].watermark]]

InitNoRefresh ==
    /\ execution_history = <<>>
    /\ rpc = <<>>
    /\ refresh = <<>>
    /\ capture = <<>>

\* every configuration of GateConfigs, nothing published yet
InitGated(b) ==
    /\ InitWorld
    /\ \E cf \in [FeedIds -> UNION {GateConfigs(a) : a \in FeedIds}] :
         /\ \A a \in FeedIds : cf[a] \in GateConfigs(a)
         /\ InitConfigured(cf)
    /\ feedItems = [f \in FeedIds |-> <<>>]
    /\ InitNoRefresh
    /\ budget = b

Init == InitGated(Budget(MaxItems, MaxCycles, MaxOps, 0, 0))

\* the steps of a poll_all_feeds call after its start
CycleStep(p) ==
    \/ ParseFeed(p)
    \/ FetchNewPosts(p)
    \/ ClaimItem(p)
    \/ TriggerRead(p)
    \/ ExecCheck(p)
    \/ ExecOrder(p)
    \/ ExecInsert(p)
    \/ PostUpdate(p)
    \/ FinishFeed(p)
    \/ LogFeedError(p)
    \/ PollAllCommit(p)

PollStep(p) ==
    \/ PollAllStart(p)
    \/ CycleStep(p)

\* polling, with the feed publishing and the operator's requests
Next ==
    \/ \E p \in Pollers : PollStep(p)
    \/ \E a \in Feeds : BaselineFetch(a) \/ BaselineWrite(a) \/ ToggleEnabled(a)
    \/ \E f \in Feeds : Publish(f)

Spec == Init /\ [][Next]_vars

\* the same steps, for the feed selection
InitGate == InitGated(Budget(GateItems, GateCycles, GateOps, 0, 0))

SpecGate == InitGate /\ [][Next]_vars

\* ------------------------------------ overlapping cycles over a polled feed
InitRace ==
    /\ InitWorld
    /\ InitConfigured([f \in FeedIds |->
          Config("active", TRUE, Baselined,
                 <<Action(1, AccountOf(f), 100, "Instagram Likes", FixedParams)>>)])
    /\ feedItems = [f \in FeedIds |-> <<>>]
    /\ InitNoRefresh
    /\ budget = Budget(RaceItems, RaceCycles, 0, 0, 0)

\* the scheduled and the manual cycles, with the feed publishing
NextRace ==
    \/ \E p \in Pollers : PollStep(p)
    \/ \E f \in Feeds : Publish(f)

SpecRace == InitRace /\ [][NextRace]_vars

\* ------------------------------- start_polling, stop_polling, _polling_loop
\* start_polling: a second call while is_running changes nothing
StartPolling ==
    /\ ~stopping
    /\ budget.ops > 0
    /\ budget' = [budget EXCEPT !.ops = @ - 1]
    /\ IF is_running
       THEN UNCHANGED <<is_running, polling_thread, loop>>
       ELSE \E t \in LoopThreads :
              /\ loop[t].pc = "unborn"
              /\ is_running' = TRUE
              /\ polling_thread' = Some(t)
              /\ loop' = [loop EXCEPT ![t].pc = "while"]
    /\ UNCHANGED <<storeVars, worldVars, pollVars, opVars, refreshVars, stopping>>

\* Thread.is_alive()
ThreadAlive(t) == loop[t].pc \notin {"unborn", "ended"}

\* a stop that ends the thread at once, whatever it is doing
StopPollingInterrupts ==
    /\ ~stopping
    /\ budget.ops > 0
    /\ budget' = [budget EXCEPT !.ops = @ - 1]
    /\ is_running' = FALSE
    /\ stopping' = FALSE
    /\ loop' = [t \in LoopThreads |->
                  IF ThreadAlive(t) THEN [loop[t] EXCEPT !.pc = "ended"] ELSE loop[t]]
    /\ pc' = [t \in Pollers |-> "idle"]
    /\ dbLock' = NoLock
    /\ UNCHANGED <<accounts, actions, rss_feeds, processed_posts, execution_history,
                   rss_poll_log, screenshots, worldVars, triggerCalls, poll, trig,
                   exec, result, opVars, refreshVars, polling_thread>>

\* stop_polling up to the join
StopPolling ==
    /\ ~stopping
    /\ budget.ops > 0
    /\ budget' = [budget EXCEPT !.ops = @ - 1]
    /\ is_running' = FALSE
    /\ stopping' = (~IsNull(polling_thread) /\ ThreadAlive(Val(polling_thread)))
    /\ UNCHANGED <<storeVars, worldVars, pollVars, opVars, refreshVars,
                   polling_thread, loop>>

\* join(timeout=5) returns: the thread has ended, or five seconds have passed
\* while it sleeps or polls
StopReturn ==
    /\ stopping
    /\ \/ ~ThreadAlive(Val(polling_thread))
       \/ loop[Val(polling_thread)].pc \in {"sleep", "cycle"}
    /\ stopping' = FALSE
    /\ UNCHANGED <<storeVars, worldVars, pollVars, opVars, refreshVars, budget,
                   is_running, polling_thread, loop>>

\* "while self.is_running" holds and poll_all_feeds is called: the test and
\* the start of the cycle are one step
LoopIterate(t) ==
    /\ loop[t].pc = "while"
    /\ is_running
    /\ PollAllFeeds(t)
    /\ loop' = [loop EXCEPT ![t].pc = "cycle"]
    /\ UNCHANGED <<is_running, polling_thread, stopping>>

\* "while self.is_running" fails: the thread ends
LoopExit(t) ==
    /\ loop[t].pc = "while"
    /\ ~is_running
    /\ loop' = [loop EXCEPT ![t].pc = "ended"]
    /\ UNCHANGED <<storeVars, worldVars, pollVars, opVars, refreshVars, budget,
                   is_running, polling_thread, stopping>>

\* a loop that sleeps the polling interval whatever happened
SleepAfterAlike(res) == PollingInterval

\* what the loop sleeps after poll_all_feeds returned or raised
SleepAfter(res) == IF res.status = "exception" THEN ErrorCooldown ELSE PollingInterval

\* poll_all_feeds returned or raised: time.sleep begins
LoopAfterCycle(t) ==
    /\ loop[t].pc = "cycle"
    /\ pc[t] = "idle"
    /\ ~IsNull(result[t])
    /\ loop' = [loop EXCEPT ![t] = [pc |-> "sleep", wait |-> SleepAfter(Val(result[t]))]]
    /\ UNCHANGED <<storeVars, worldVars, pollVars, opVars, refreshVars, budget,
                   is_running, polling_thread, stopping>>

\* time.sleep returns
LoopWake(t) ==
    /\ loop[t].pc = "sleep"
    /\ loop' = [loop EXCEPT ![t] = [pc |-> "while", wait |-> 0]]
    /\ UNCHANGED <<storeVars, worldVars, pollVars, opVars, refreshVars, budget,
                   is_running, polling_thread, stopping>>

LoopStep(t) ==
    \/ LoopIterate(t)
    \/ LoopExit(t)
    \/ LoopAfterCycle(t)
    \/ LoopWake(t)
    \/ CycleStep(t)

\* the service before its first start, over a feed that holds one new item
InitService(b) ==
    /\ InitWorldOf(FeedIds, LoopThreads)
    /\ InitConfigured([f \in FeedIds |->
          Config("active", TRUE, Baselined,
                 <<Action(1, AccountOf(f), 100, "Instagram Likes", FixedParams)>>)])
    /\ feedItems = [f \in FeedIds |-> <<ItemData("g1", "L1", Some(2 * Day))>>]
    /\ InitNoRefresh
    /\ budget = b

\* the service is started and stopped, its loop threads poll
NextLoop ==
    \/ StartPolling
    \/ StopPolling
    \/ StopReturn
    \/ \E t \in LoopThreads : LoopStep(t)

InitLoop == InitService(Budget(0, LoopCycles, LoopOps, 0, 0))

SpecLoop == InitLoop /\ [][NextLoop]_vars

\* the same, where a thread that can take a step takes it in the end, and
\* join returns in the end
InitStop == InitService(Budget(0, StopCycles, StopOps, 0, 0))

SpecStop ==
    /\ InitStop
    /\ [][NextLoop]_vars
    /\ \A t \in LoopThreads : WF_vars(LoopStep(t))
    /\ WF_vars(StopReturn)

\* ------------------------ the loop over a feed that fails and one that holds
\* a new item
FailingFeed == 1                   \* the feed whose document cannot be fetched
HealthyFeed == 2                   \* the feed whose fetches succeed

InitLive ==
    /\ InitWorldOf(AccountFeeds, LoopThreads)
    /\ InitConfigured([f \in AccountFeeds |->
          Config("active", TRUE, Baselined,
                 <<Action(1, AccountOf(f), 100, "Instagram Likes", FixedParams)>>)])
    /\ feedItems = [f \in AccountFeeds |->
                      IF f = HealthyFeed THEN <<ItemData("g1", "L1", Some(2 * Day))>>
                      ELSE <<>>]
    /\ InitNoRefresh
    /\ budget = Budget(0, 0, LiveOps, 0, 0)

\* "while self.is_running" holds and poll_all_feeds is called, as often as
\* the loop comes round
LiveIterate(t) ==
    /\ loop[t].pc = "while"
    /\ is_running
    /\ SelectFeeds(t)
    /\ loop' = [loop EXCEPT ![t].pc = "cycle"]
    /\ UNCHANGED <<budget, is_running, polling_thread, stopping>>

\* a step of the loop thread; only the fetch of FailingFeed fails
LiveStep(t) ==
    /\ \/ LiveIterate(t)
       \/ LoopAfterCycle(t)
       \/ LoopWake(t)
       \/ CycleStep(t)
    /\ ~(/\ pc[t] \in {"sf_parse", "sf_new"}
         /\ pc'[t] = "all_error"
         /\ CurFeed(t).id # FailingFeed)

NextLive ==
    \/ StartPolling
    \/ \E t \in LoopThreads : LiveStep(t)

\* the service is started in the end, and its thread takes the steps it can
SpecLive ==
    /\ InitLive
    /\ [][NextLive]_vars
    /\ WF_vars(StartPolling)
    /\ \A t \in LoopThreads : WF_vars(LiveStep(t))

\* ------------------------------------------------ one cycle over two feeds
InitFeeds ==
    /\ InitWorldOf(AccountFeeds, PollerIds)
    /\ InitConfigured([f \in AccountFeeds |->
          Config("active", TRUE, Baselined,
                 <<Action(1, AccountOf(f), 100, "Instagram Likes", FixedParams)>>)])
    /\ feedItems = [f \in AccountFeeds |-> <<>>]
    /\ InitNoRefresh
    /\ budget = Budget(FeedsItems, FeedsCycles, 0, 0, 0)

\* the background loop alone, with the feeds publishing
NextFeeds ==
    \/ PollStep("scheduled")
    \/ \E f \in Feeds : Publish(f)

SpecFeeds == InitFeeds /\ [][NextFeeds]_vars

\* ------------------------------------------- executions of every action list
InitExec ==
    /\ InitWorld
    /\ \E cf \in [FeedIds -> UNION {ExecConfigs(a) : a \in FeedIds}] :
         /\ \A a \in FeedIds : cf[a] \in ExecConfigs(a)
         /\ InitConfigured(cf)
    /\ feedItems = [f \in FeedIds |-> <<>>]
    /\ InitNoRefresh
    /\ budget = Budget(ExecItems, ExecCycles, 0, ExecTicks, 0)

\* the polling loop alone, the feed publishing, days passing
NextExec ==
    \/ PollStep("scheduled")
    \/ ExecLlm("scheduled")
    \/ \E f \in Feeds : Publish(f)
    \/ Tick

SpecExec == InitExec /\ [][NextExec]_vars

\* ------------------------------------- polls of a document that stays as is
\* the items a document holds before the account is configured
OldItems ==
    {ItemData(k[1], k[2], d) : k \in ItemKinds, d \in {Some(Day), Some(Day + 10), Null}}

\* the documents: up to FrozenItems items of distinct identity
OldDocuments ==
    {doc \in UNION {[1..n -> OldItems] : n \in 1..FrozenItems} :
        \A i, j \in DOMAIN doc :
            i # j => <<doc[i].guid, doc[i].link>> # <<doc[j].guid, doc[j].link>>}

\* accounts whose feed has no baseline yet, and accounts polled since Day - 5
FrozenConfigs(a) ==
    LET likes == <<Action(1, a, 100, "Instagram Likes", FixedParams)>>
    IN  { Config("active", TRUE, Null, likes),
          Config("active", TRUE, Some(Day - 5), likes) }

InitFrozen ==
    /\ InitWorld
    /\ \E cf \in [FeedIds -> UNION {FrozenConfigs(a) : a \in FeedIds}] :
         /\ \A a \in FeedIds : cf[a] \in FrozenConfigs(a)
         /\ InitConfigured(cf)
    /\ feedItems \in [FeedIds -> OldDocuments]
    /\ InitNoRefresh
    /\ budget = Budget(FrozenItems, FrozenCycles, FrozenOps, 0, 0)

\* polling and baseline requests; the documents do not change
NextFrozen ==
    \/ \E p \in Pollers : PollStep(p)
    \/ \E a \in Feeds : BaselineFetch(a) \/ BaselineWrite(a)

SpecFrozen == InitFrozen /\ [][NextFrozen]_vars

\* ------------------------------------------- refresh_execution_status (app)
Refreshers == {"r1", "r2"}    \* request threads of the web server

\* the order ids asked for: the order of the record, and one without record
OrderIds == {1, 2}

\* what get_order_status answers
JapAnswers ==
    { [status |-> "Completed"], [status |-> "Pending"], [charge |-> 1],
      [error |-> "Request failed"] }

\* str.lower() on the order statuses in use
LowerStatus(s) ==
    CASE s = "Completed" -> "completed"
      [] s = "Pending" -> "pending"
      [] OTHER -> s

NoRefresh == [order_id |-> 0, jap_status |-> <<>>, old_execution |-> Null,
              new_status |-> ""]

\* get_order_status, and the 400 response on an error
RefreshStart(r) ==
    /\ rpc[r] = "idle"
    /\ budget.refreshes > 0
    /\ budget' = [budget EXCEPT !.refreshes = @ - 1]
    /\ \E o \in OrderIds, answer \in JapAnswers :
         IF "error" \in DOMAIN answer
         THEN UNCHANGED <<rpc, refresh>>
         ELSE /\ refresh' = [refresh EXCEPT ![r] =
                               [NoRefresh EXCEPT !.order_id = o, !.jap_status = answer]]
              /\ rpc' = [rpc EXCEPT ![r] = "read"]
    /\ UNCHANGED <<storeVars, worldVars, pollVars, opVars, capture,
                   loopVars>>

\* SELECT id, status, target_url, platform ... WHERE jap_order_id = ?
OldExecution(hist, o) ==
    LET found == {i \in 1..Len(hist) : hist[i].jap_order_id = o}
    IN  IF found = {} THEN Null
        ELSE LET h == hist[CHOOSE i \in found : \A j \in found : i <= j]
             IN  Some([id |-> h.id, status |-> h.status, target_url |-> h.target_url,
                       platform |-> h.platform])

\* the record is read, the new status is computed
RefreshRead(r) ==
    /\ rpc[r] = "read"
    /\ refresh' = [refresh EXCEPT
                     ![r].old_execution = OldExecution(execution_history, refresh[r].order_id),
                     ![r].new_status = LowerStatus(Get(refresh[r].jap_status,
                                                       "status", "unknown"))]
    /\ rpc' = [rpc EXCEPT ![r] = "update"]
    /\ UNCHANGED <<storeVars, worldVars, pollVars, opVars, capture, budget,
                   loopVars>>

\* UPDATE execution_history SET status = ? WHERE jap_order_id = ?, commit
RefreshUpdate(r) ==
    /\ rpc[r] = "update"
    /\ dbLock = NoLock
    /\ execution_history' =
          [i \in 1..Len(execution_history) |->
              IF execution_history[i].jap_order_id = refresh[r].order_id
              THEN [execution_history[i] EXCEPT !.status = refresh[r].new_status]
              ELSE execution_history[i]]
    /\ rpc' = [rpc EXCEPT ![r] = "check"]
    /\ UNCHANGED <<accounts, actions, rss_feeds, processed_posts, rss_poll_log,
                   screenshots, dbLock, worldVars, pollVars, opVars, refresh,
                   capture, budget,
                   loopVars>>

\* SELECT id FROM screenshots WHERE execution_id = ? AND screenshot_type =
\* 'after' AND status = 'completed'
ExistingAfterScreenshot(shots, executionId) ==
    \E i \in 1..Len(shots) :
        /\ shots[i].execution_id = executionId
        /\ shots[i].screenshot_type = "after"
        /\ shots[i].status = "completed"

\* the decision taken whatever the status read before the update
ShouldCaptureAfterAnyOld(old, newStatus, shots) ==
    /\ ~IsNull(old)
    /\ newStatus = "completed"
    /\ ~ExistingAfterScreenshot(shots, Val(old).id)

\* should_capture_after_screenshot
ShouldCaptureAfter(old, newStatus, shots) ==
    /\ ~IsNull(old)
    /\ Val(old).status # "completed"
    /\ newStatus = "completed"
    /\ ~ExistingAfterScreenshot(shots, Val(old).id)

\* locals of a capture_screenshot call as it starts; requests counts the
\* requests sent to the capture API, slept lists the time.sleep calls
CaptureCall(executionId, url, platform, type) ==
    [execution_id |-> executionId, url |-> url, platform |-> platform,
     screenshot_type |-> type, pc |-> "create", attempt |-> 0,
     screenshot_id |-> 0, success |-> Null, error |-> "", requests |-> 0,
     slept |-> <<>>]

\* the call made by the thread that refresh_execution_status starts
CaptureThread(old) ==
    CaptureCall(Val(old).id, Val(old).target_url, Val(old).platform, "after")

\* the decision, the start of the capture thread, the response
RefreshCheck(r) ==
    /\ rpc[r] = "check"
    /\ capture' =
          IF ShouldCaptureAfter(refresh[r].old_execution, refresh[r].new_status, screenshots)
          THEN Append(capture, CaptureThread(refresh[r].old_execution))
          ELSE capture
    /\ rpc' = [rpc EXCEPT ![r] = "idle"]
    /\ UNCHANGED <<storeVars, worldVars, pollVars, opVars, refresh, budget,
                   loopVars>>

\* ------------------------------------- capture_screenshot (screenshot_client)
\* a screenshots table without the UNIQUE constraint
ScreenshotConflictNoUnique(shots, executionId, type) == FALSE

\* UNIQUE(execution_id, screenshot_type) of screenshots
ScreenshotConflict(shots, executionId, type) ==
    \E i \in 1..Len(shots) :
        shots[i].execution_id = executionId /\ shots[i].screenshot_type = type

CaptureDone(t, ok) == [capture EXCEPT ![t].pc = "done", ![t].success = Some(ok)]

\* return {'success': False, 'error': ...}
CaptureFailed(t, error) ==
    [capture EXCEPT ![t].pc = "done", ![t].success = Some(FALSE), ![t].error = error]

SetShotStatus(shots, id, status) ==
    [i \in 1..Len(shots) |->
        IF shots[i].id = id THEN [shots[i] EXCEPT !.status = status] ELSE shots[i]]

\* a write of the client finds the store free
CaptureFree == dbLock = NoLock

\* a write of the client raises "database is locked" after its three tries:
\* the lock is held by a poll_all_feeds transaction that stays open until the
\* cycle ends.  Any other holder is waited for.
CaptureLocked == dbLock # NoLock /\ dbLock[2] = "all"

\* the settings are read and the record is created
CaptureCreate(t) ==
    /\ capture[t].pc = "create"
    /\ \/ \* screenshots disabled, no API key or no profile for the platform
          /\ capture' = CaptureFailed(t, "not configured")
          /\ UNCHANGED screenshots
       \/ /\ CaptureFree
          /\ ScreenshotConflict(screenshots, capture[t].execution_id,
                                 capture[t].screenshot_type)
          \* IntegrityError, caught by the outer handler
          /\ capture' = CaptureFailed(t, "UNIQUE constraint failed")
          /\ UNCHANGED screenshots
       \/ /\ CaptureFree
          /\ ~ScreenshotConflict(screenshots, capture[t].execution_id,
                                  capture[t].screenshot_type)
          /\ screenshots' = Append(screenshots,
                [id |-> Len(screenshots) + 1,
                 execution_id |-> capture[t].execution_id,
                 screenshot_type |-> capture[t].screenshot_type,
                 url |-> capture[t].url, status |-> "pending"])
          /\ capture' = [capture EXCEPT ![t].pc = "attempt",
                                        ![t].screenshot_id = Len(screenshots) + 1]
       \/ /\ CaptureLocked
          \* OperationalError, caught by the outer handler
          /\ capture' = CaptureFailed(t, "database is locked")
          /\ UNCHANGED screenshots
    /\ UNCHANGED <<accounts, actions, rss_feeds, processed_posts, execution_history,
                   rss_poll_log, dbLock, worldVars, pollVars, opVars, rpc, refresh,
                   budget,
                   loopVars>>

\* an attempt starts: status 'capturing', then the request to the capture API
CaptureAttempt(t) ==
    /\ capture[t].pc = "attempt"
    /\ \/ /\ CaptureFree
          /\ screenshots' = SetShotStatus(screenshots, capture[t].screenshot_id,
                                          "capturing")
          /\ capture' = [capture EXCEPT ![t].pc = "wait", ![t].requests = @ + 1]
       \/ /\ CaptureLocked
          \* OperationalError, caught by the handler of the attempt
          /\ capture' = [capture EXCEPT ![t].pc = "retry"]
          /\ UNCHANGED screenshots
    /\ UNCHANGED <<accounts, actions, rss_feeds, processed_posts, execution_history,
                   rss_poll_log, dbLock, worldVars, pollVars, opVars, rpc, refresh,
                   budget,
                   loopVars>>

\* the capture API answered, or the request raised
CaptureResult(t) ==
    /\ capture[t].pc = "wait"
    /\ \/ \* success, and _update_screenshot_success
          /\ CaptureFree
          /\ screenshots' = SetShotStatus(screenshots, capture[t].screenshot_id,
                                           "completed")
          /\ capture' = CaptureDone(t, TRUE)
       \/ \* success, and _update_screenshot_success raises
          /\ CaptureLocked
          /\ capture' = [capture EXCEPT ![t].pc = "retry"]
          /\ UNCHANGED screenshots
       \/ \* an error answer, a status other than 200 or an exception
          /\ capture' = [capture EXCEPT ![t].pc = "retry"]
          /\ UNCHANGED screenshots
    /\ UNCHANGED <<accounts, actions, rss_feeds, processed_posts, execution_history,
                   rss_poll_log, dbLock, worldVars, pollVars, opVars, rpc, refresh,
                   budget,
                   loopVars>>

\* a back-off that does not grow
BackoffFlat(attempt) == RetryDelay

\* time.sleep(self.retry_delay * (attempt + 1))
Backoff(attempt) == RetryDelay * (attempt + 1)

\* attempt < self.max_retries - 1
MoreAttempts(attempt) == attempt < MaxRetries - 1

\* _update_screenshot_failure
FinalStatus(shots, id) == SetShotStatus(shots, id, "failed")

\* the handler of a failed attempt: the retry count and the sleep, or the
\* final failure
CaptureRetry(t) ==
    /\ capture[t].pc = "retry"
    /\ \/ /\ CaptureFree
          /\ MoreAttempts(capture[t].attempt)
          /\ capture' = [capture EXCEPT
                           ![t].pc = "attempt",
                           ![t].slept = Append(@, Backoff(capture[t].attempt)),
                           ![t].attempt = @ + 1]
          /\ UNCHANGED screenshots
       \/ /\ CaptureFree
          /\ ~MoreAttempts(capture[t].attempt)
          /\ screenshots' = FinalStatus(screenshots, capture[t].screenshot_id)
          /\ capture' = CaptureFailed(t, "Failed after attempts")
       \/ /\ CaptureLocked
          \* OperationalError in the handler, caught by the outer handler
          /\ capture' = CaptureFailed(t, "database is locked")
          /\ UNCHANGED screenshots
    /\ UNCHANGED <<accounts, actions, rss_feeds, processed_posts, execution_history,
                   rss_poll_log, dbLock, worldVars, pollVars, opVars, rpc, refresh,
                   budget,
                   loopVars>>

\* the store after one poll cycle accepted one item and placed one order
InitRefresh ==
    LET account == AccountRow(1, "active", TRUE, "", "feed.xml")
        action == Action(1, 1, 100, "Instagram Likes", FixedParams)
        item == ItemData("g1", "L1", Some(2 * Day))
    IN  /\ accounts = [a \in FeedIds |-> account]
        /\ actions = [a \in FeedIds |-> <<action>>]
        /\ sqlite_sequence = 1
        /\ rss_feeds = [f \in FeedIds |-> [last_post_date |-> Some(2 * Day - 1),
                                          last_checked |-> Some(2 * Day)]]
        /\ now = 2 * Day
        /\ feedItems = [f \in FeedIds |-> <<item>>]
        /\ japOrders = <<[service_id |-> 100, link |-> "L1", quantity |-> 5,
                          comments |-> "", account_id |-> 1]>>
        /\ llmCalls = EmptyBag
        /\ triggerCalls = SetToBag({[feed_id |-> 1, post_guid |-> "g1"]})
        /\ processed_posts = <<[feed_id |-> 1, post_guid |-> "g1", post_url |-> "L1",
                                actions_triggered |-> 1]>>
        /\ execution_history = <<HistoryRow(1, 1, "rss_trigger", account, action,
                                            "L1", 5, "pending", 2 * Day)>>
        /\ rss_poll_log = SetToBag({[feed_id |-> 1, posts_found |-> 1, new_posts |-> 1,
                                     actions_triggered |-> 1, status |-> "success"]})
        /\ screenshots = <<>>
        /\ dbLock = NoLock
        /\ pc = [p \in PollerIds |-> "idle"]
        /\ poll = [p \in PollerIds |-> NoPoll]
        /\ trig = [p \in PollerIds |-> NoTrig]
        /\ exec = [p \in PollerIds |-> NoExec]
        /\ result = [p \in PollerIds |-> Null]
        /\ is_running = FALSE
        /\ polling_thread = Null
        /\ loop = [t \in LoopThreads |-> NoLoop]
        /\ stopping = FALSE
        /\ base = [a \in FeedIds |-> NoBase]
        /\ budget = Budget(1, 0, 0, 0, MaxRefreshes)
        /\ rpc = [r \in Refreshers |-> "idle"]
        /\ refresh = [r \in Refreshers |-> NoRefresh]
        /\ capture = <<>>

\* refresh requests and the capture threads they start
NextRefresh ==
    \/ \E r \in Refreshers :
          RefreshStart(r) \/ RefreshRead(r) \/ RefreshUpdate(r) \/ RefreshCheck(r)
    \/ \E t \in 1..Len(capture) :
          CaptureCreate(t) \/ CaptureAttempt(t) \/ CaptureResult(t) \/ CaptureRetry(t)

SpecRefresh == InitRefresh /\ [][NextRefresh]_vars

\* ------------------------------------------- quick_execute_action (app.py)
QuickThreads == {"q1"}        \* request threads of the web server

\* the bodies of POST /api/actions/quick-execute in use
QuickRequests ==
    { [service_id |-> 100, link |-> "L1", quantity |-> 5, platform |-> "Instagram",
       service_name |-> "Instagram Likes"],
      [service_id |-> 200, link |-> "L1", quantity |-> 2, platform |-> "Instagram",
       service_name |-> "Instagram Custom Comments", use_llm_generation |-> TRUE,
       comment_directives |-> "be kind"] }

\* before: the capture_screenshot call made for the record; response: the
\* HTTP status returned
NoQuick == [data |-> <<>>, custom_comments |-> "", execution_id |-> Null,
            before |-> 0, order_response |-> <<>>, response |-> Null]

\* data.get('use_llm_generation') and 'comment' in data['service_name'].lower()
QuickUsesLlm(data) ==
    /\ Get(data, "use_llm_generation", FALSE)
    /\ ContainsComment(Lower(data.service_name))

\* the request is read; comments are generated when asked for
QuickStart(q) ==
    /\ rpc[q] = "idle"
    /\ budget.ops > 0
    /\ budget' = [budget EXCEPT !.ops = @ - 1]
    /\ \E data \in QuickRequests :
         LET begun == [NoQuick EXCEPT !.data = data,
                                      !.custom_comments = Get(data, "custom_comments", "")]
         IN  IF QuickUsesLlm(data)
             THEN /\ llmCalls' = AddRow(llmCalls,
                        [comment_count |-> data.quantity,
                         custom_input |-> Get(data, "comment_directives",
                                              "Generate engaging comments")])
                  /\ \E outcome \in LlmOutcomes :
                       LET res == LlmResult(outcome)
                       IN  IF res.success
                           THEN /\ refresh' = [refresh EXCEPT ![q] =
                                      [begun EXCEPT !.custom_comments = res.comments]]
                                /\ rpc' = [rpc EXCEPT ![q] = "q_insert"]
                           ELSE /\ refresh' = [refresh EXCEPT ![q] =
                                      [begun EXCEPT !.response = Some(400)]]
                                /\ UNCHANGED rpc
             ELSE /\ refresh' = [refresh EXCEPT ![q] = begun]
                  /\ rpc' = [rpc EXCEPT ![q] = "q_insert"]
                  /\ UNCHANGED llmCalls
    /\ UNCHANGED <<storeVars, feedItems, japOrders, now, pollVars, opVars, capture,
                   loopVars>>

\* the row quick_execute_action creates before the order exists; the empty
\* jap_order_id '' is written 0
PreparingRow(id, data, t) ==
    [id |-> id, jap_order_id |-> 0, execution_type |-> "instant",
     platform |-> data.platform, target_url |-> data.link,
     service_id |-> data.service_id, service_name |-> data.service_name,
     quantity |-> data.quantity, status |-> "preparing", account_id |-> Null,
     created_at |-> t]

\* a write of the request finds the store free
QuickFree == dbLock = NoLock

\* a write of the request raises "database is locked": the lock is held by a
\* poll_all_feeds transaction that stays open until the cycle ends
QuickLocked == dbLock # NoLock /\ dbLock[2] = "all"

\* INSERT INTO execution_history ... 'preparing', commit, and the call of
\* capture_screenshot; or the handler of "Screenshot setup failed"
QuickInsert(q) ==
    /\ rpc[q] = "q_insert"
    /\ \/ /\ QuickFree
          /\ LET id == Len(execution_history) + 1
                 data == refresh[q].data
             IN  /\ execution_history' =
                       Append(execution_history, PreparingRow(id, data, now))
                 /\ capture' = Append(capture,
                       CaptureCall(id, data.link, data.platform, "before"))
                 /\ refresh' = [refresh EXCEPT ![q].execution_id = Some(id),
                                               ![q].before = Len(capture) + 1]
          /\ rpc' = [rpc EXCEPT ![q] = "q_capture"]
       \/ /\ QuickLocked
          /\ rpc' = [rpc EXCEPT ![q] = "q_order"]
          /\ UNCHANGED <<execution_history, capture, refresh>>
    /\ UNCHANGED <<accounts, actions, rss_feeds, processed_posts, rss_poll_log,
                   screenshots, dbLock, worldVars, pollVars, opVars, budget,
                   loopVars>>

\* capture_screenshot returned, with success or not
QuickCaptured(q) ==
    /\ rpc[q] = "q_capture"
    /\ capture[refresh[q].before].pc = "done"
    /\ rpc' = [rpc EXCEPT ![q] = "q_order"]
    /\ UNCHANGED <<storeVars, worldVars, pollVars, opVars, refresh, capture, budget,
                   loopVars>>

\* jap_client.create_order
QuickOrder(q) ==
    /\ rpc[q] = "q_order"
    /\ \/ /\ japOrders' = Append(japOrders,
                [service_id |-> refresh[q].data.service_id,
                 link |-> refresh[q].data.link,
                 quantity |-> refresh[q].data.quantity,
                 comments |-> refresh[q].custom_comments,
                 account_id |-> 0])
          /\ refresh' = [refresh EXCEPT ![q].order_response =
                                           [order |-> Len(japOrders) + 1]]
       \/ /\ refresh' = [refresh EXCEPT ![q].order_response =
                                           [error |-> "order error"]]
          /\ UNCHANGED japOrders
    /\ rpc' = [rpc EXCEPT ![q] = "q_update"]
    /\ UNCHANGED <<storeVars, feedItems, llmCalls, now, pollVars, opVars, capture,
                   budget,
                   loopVars>>

\* the order id f'FAILED_{int(time.time())}', written as a negative number
FailedOrderId(t) == 0 - t

\* UPDATE execution_history SET status = ?, jap_order_id = ? WHERE id = ?
UpdatedRow(row, response, t) ==
    IF "error" \in DOMAIN response
    THEN [row EXCEPT !.status = "failed", !.jap_order_id = FailedOrderId(t)]
    ELSE [row EXCEPT !.status = "pending", !.jap_order_id = response.order]

\* the branch on the order response, the UPDATE of the record, the response
QuickUpdate(q) ==
    /\ rpc[q] = "q_update"
    /\ LET response == refresh[q].order_response
           code == IF "error" \in DOMAIN response THEN 400 ELSE 200
       IN  IF IsNull(refresh[q].execution_id)
           THEN /\ refresh' = [refresh EXCEPT ![q].response = Some(code)]
                /\ UNCHANGED execution_history
           ELSE \/ /\ QuickFree
                   /\ execution_history' =
                        [i \in 1..Len(execution_history) |->
                            IF execution_history[i].id = Val(refresh[q].execution_id)
                            THEN UpdatedRow(execution_history[i], response, now)
                            ELSE execution_history[i]]
                   /\ refresh' = [refresh EXCEPT ![q].response = Some(code)]
                \/ /\ QuickLocked
                   \* OperationalError, caught by the outer handler
                   /\ refresh' = [refresh EXCEPT ![q].response = Some(500)]
                   /\ UNCHANGED execution_history
    /\ rpc' = [rpc EXCEPT ![q] = "idle"]
    /\ UNCHANGED <<accounts, actions, rss_feeds, processed_posts, rss_poll_log,
                   screenshots, dbLock, worldVars, pollVars, opVars, capture, budget,
                   loopVars>>

\* quick executions while the background cycle polls two feeds that hold no
\* new item
InitQuick ==
    /\ InitWorldOf(AccountFeeds, {"scheduled"})
    /\ InitConfigured([f \in AccountFeeds |->
          Config("active", TRUE, Baselined,
                 <<Action(1, AccountOf(f), 100, "Instagram Likes", FixedParams)>>)])
    /\ feedItems = [f \in AccountFeeds |-> <<>>]
    /\ execution_history = <<>>
    /\ rpc = [q \in QuickThreads |-> "idle"]
    /\ refresh = [q \in QuickThreads |-> NoQuick]
    /\ capture = <<>>
    /\ budget = Budget(0, QuickCycles, QuickOps, 0, 0)

QuickStep(q) ==
    \/ QuickStart(q)
    \/ QuickInsert(q)
    \/ QuickCaptured(q)
    \/ QuickOrder(q)
    \/ QuickUpdate(q)

\* the steps of a cycle over feeds that hold no new item: no post is
\* claimed, so the steps of trigger_actions_for_post are not among them
QuickPoll(p) ==
    \/ PollAllStart(p)
    \/ ParseFeed(p)
    \/ FetchNewPosts(p)
    \/ FinishFeed(p)
    \/ LogFeedError(p)
    \/ PollAllCommit(p)

NextQuick ==
    \/ \E q \in QuickThreads : QuickStep(q)
    \/ \E t \in 1..Len(capture) :
          CaptureCreate(t) \/ CaptureAttempt(t) \/ CaptureResult(t) \/ CaptureRetry(t)
    \/ QuickPoll("scheduled")

SpecQuick == InitQuick /\ [][NextQuick]_vars

\* --------------------------- create, delete and copy of actions (app.py)
\* the bodies of POST /api/accounts/<id>/actions in use
NewActions ==
    { [jap_service_id |-> 100, service_name |-> "Instagram Likes",
       parameters |-> FixedParams],
      [jap_service_id |-> 300, service_name |-> "Instagram Followers",
       parameters |-> RangeParams] }

\* create_account_action: INSERT, commit, COUNT(*) of the account's rows, and
\* the baseline call when that count is 1
CreateAction(a, new) ==
    /\ budget.ops > 0
    /\ budget' = [budget EXCEPT !.ops = @ - 1]
    /\ dbLock = NoLock
    /\ base[a].pc = "idle"
    /\ sqlite_sequence' = sqlite_sequence + 1
    /\ actions' = [actions EXCEPT ![a] =
                     Append(@, Action(sqlite_sequence + 1, a, new.jap_service_id,
                                      new.service_name, new.parameters))]
    /\ IF Len(actions'[a]) = 1 THEN FetchBaseline(a) ELSE UNCHANGED base
    /\ UNCHANGED <<accounts, rss_feeds, processed_posts, execution_history,
                   rss_poll_log, screenshots, dbLock, worldVars, pollVars,
                   refreshVars, loopVars>>

\* a delete that leaves the account as it is
EnabledAfterDeleteKept(enabled, remaining) == enabled

\* accounts.enabled after delete_action, given the active actions that remain
EnabledAfterDelete(enabled, remaining) ==
    IF Len(remaining) = 0 THEN FALSE ELSE enabled

\* delete_action: DELETE, commit, and the account is disabled when no active
\* action remains
DeleteAction(a, i) ==
    /\ budget.ops > 0
    /\ budget' = [budget EXCEPT !.ops = @ - 1]
    /\ dbLock = NoLock
    /\ i \in 1..Len(actions[a])
    /\ actions' = [actions EXCEPT ![a] = SubSeq(@, 1, i - 1) \o SubSeq(@, i + 1, Len(@))]
    /\ accounts' = [accounts EXCEPT ![a].enabled =
                      EnabledAfterDelete(@, ActiveActions(actions'[a]))]
    /\ UNCHANGED <<rss_feeds, processed_posts, execution_history, rss_poll_log,
                   screenshots, dbLock, worldVars, pollVars, opVars, refreshVars,
                   loopVars>>

\* the rows copy_account_actions inserts for one target account
CopiedActions(src, dst) ==
    [k \in 1..Len(ActiveActions(actions[src])) |->
        Action(sqlite_sequence + k, dst, ActiveActions(actions[src])[k].jap_service_id,
               ActiveActions(actions[src])[k].service_name, ActiveActions(actions[src])[k].parameters)]

\* copy_account_actions with target_account_ids = [dst]
CopyActions(src, dst) ==
    /\ budget.ops > 0
    /\ budget' = [budget EXCEPT !.ops = @ - 1]
    /\ dbLock = NoLock
    /\ ActiveActions(actions[src]) # <<>>
    /\ IF dst = src
       THEN UNCHANGED <<actions, sqlite_sequence>>
       ELSE /\ actions' = [actions EXCEPT ![dst] = @ \o CopiedActions(src, dst)]
            /\ sqlite_sequence' = sqlite_sequence + Len(ActiveActions(actions[src]))
    /\ UNCHANGED <<accounts, rss_feeds, processed_posts, execution_history,
                   rss_poll_log, screenshots, dbLock, worldVars, pollVars, base,
                   refreshVars, loopVars>>

\* two accounts with a feed each, no action and no baseline yet
InitActions ==
    /\ InitWorldOf(AccountFeeds, PollerIds)
    /\ InitConfigured([f \in AccountFeeds |-> Config("active", TRUE, Null, <<>>)])
    /\ feedItems = [f \in AccountFeeds |-> <<>>]
    /\ InitNoRefresh
    /\ budget = Budget(ActItems, 0, ActOps, 0, 0)

\* the operator's requests on actions and baselines, with the feeds publishing
NextActions ==
    \/ \E a \in Feeds : \E new \in NewActions : CreateAction(a, new)
    \/ \E a \in Feeds : \E i \in 1..Len(actions[a]) : DeleteAction(a, i)
    \/ \E src \in Feeds : \E dst \in Feeds : CopyActions(src, dst)
    \/ \E a \in Feeds : BaselineFetch(a) \/ BaselineWrite(a)
    \/ \E a \in Feeds : ToggleEnabled(a)
    \/ \E f \in Feeds : Publish(f)

SpecActions == InitActions /\ [][NextActions]_vars

\* ------------------------------ baseline requests over every old document
\* the documents a first baseline can meet: none to BaseItems items of
\* distinct identity, with and without a parseable pubDate
BaselineDocuments ==
    {doc \in UNION {[1..n -> OldItems] : n \in 0..BaseItems} :
        \A i, j \in DOMAIN doc :
            i # j => <<doc[i].guid, doc[i].link>> # <<doc[j].guid, doc[j].link>>}

InitBaseline ==
    /\ InitWorld
    /\ \E cf \in [FeedIds -> UNION {FrozenConfigs(a) : a \in FeedIds}] :
         /\ \A a \in FeedIds : cf[a] \in FrozenConfigs(a)
         /\ InitConfigured(cf)
    /\ feedItems \in [FeedIds -> BaselineDocuments]
    /\ InitNoRefresh
    /\ budget = Budget(BaseItems, 0, BaseOps, BaseTicks, 0)

\* baseline requests as the days pass; the documents do not change
NextBaseline ==
    \/ \E a \in Feeds : BaselineFetch(a) \/ BaselineWrite(a)
    \/ Tick

SpecBaseline == InitBaseline /\ [][NextBaseline]_vars

\* ------------------------- one cycle over an account with two active actions
\* two actions of different services, and two actions of the same service
TwinConfigs(a) ==
    { Config("active", TRUE, Baselined,
             <<Action(1, a, 100, "Instagram Likes", FixedParams),
               Action(2, a, 300, "Instagram Followers", RangeParams)>>),
      Config("active", TRUE, Baselined,
             <<Action(1, a, 100, "Instagram Likes", FixedParams),
               Action(2, a, 100, "Instagram Likes", RangeParams)>>) }

InitTwin ==
    /\ InitWorld
    /\ \E cf \in [FeedIds -> UNION {TwinConfigs(a) : a \in FeedIds}] :
         /\ \A a \in FeedIds : cf[a] \in TwinConfigs(a)
         /\ InitConfigured(cf)
    /\ feedItems = [f \in FeedIds |-> <<>>]
    /\ InitNoRefresh
    /\ budget = Budget(TwinItems, TwinCycles, 0, 0, 0)

\* the polling loop alone and the feed publishing; the order service accepts
\* every order
NextTwin ==
    \/ PollStep("scheduled") /\ ~(pc["scheduled"] = "exec_order" /\ OrderRefused("scheduled"))
    \/ \E f \in Feeds : Publish(f)

SpecTwin == InitTwin /\ [][NextTwin]_vars

\* ------------------------- one cycle over a document that is partly claimed
\* the document: two items after the baseline, the newer one first
SkipDocument ==
    <<ItemData("g1", "L1", Some(2 * Day)), ItemData("g2", "L2", Some(2 * Day - 1))>>

LedgerRow(f, item) ==
    [feed_id |-> f, post_guid |-> PostGuid(item), post_url |-> item.link,
     actions_triggered |-> 1]

\* what earlier cycles that did not reach their feed update left in
\* processed_posts: none, one or both of the items
SkipLedgers(f) ==
    { <<>>,
      <<LedgerRow(f, SkipDocument[1])>>,
      <<LedgerRow(f, SkipDocument[2])>>,
      <<LedgerRow(f, SkipDocument[2]), LedgerRow(f, SkipDocument[1])>> }

InitSkip ==
    /\ \E ledger \in UNION {SkipLedgers(f) : f \in FeedIds} :
         InitWorldWith(FeedIds, {"scheduled"}, ledger)
    /\ InitConfigured([f \in FeedIds |->
          Config("active", TRUE, Baselined,
                 <<Action(1, AccountOf(f), 100, "Instagram Likes", FixedParams)>>)])
    /\ feedItems = [f \in FeedIds |-> SkipDocument]
    /\ InitNoRefresh
    /\ budget = Budget(0, SkipCycles, 0, 0, 0)

\* the polling loop alone
NextSkip == PollStep("scheduled")

SpecSkip == InitSkip /\ [][NextSkip]_vars

\* ------------------------------ one item, with and without link and stored URL
\* accounts.url as create_account stores it: the URL sent, or '' when absent
StoredUrls == {"", "https://instagram.com/stored"}

\* <guid> and <link> of the item: both present, or the link missing
LinkKinds == { <<"g1", "L1">>, <<"g1", "">> }

InitTarget ==
    /\ InitWorldOf(FeedIds, {"scheduled"})
    /\ \E url \in StoredUrls :
         accounts = [a \in FeedIds |-> AccountRow(a, "active", TRUE, url, "feed.xml")]
    /\ actions = [a \in FeedIds |-> <<Action(1, a, 100, "Instagram Likes", FixedParams)>>]
    /\ sqlite_sequence = 1
    /\ rss_feeds = [f \in FeedIds |-> [last_post_date |-> Baselined,
                                      last_checked |-> Baselined]]
    /\ \E k \in LinkKinds :
         feedItems = [f \in FeedIds |-> <<ItemData(k[1], k[2], Some(2 * Day))>>]
    /\ InitNoRefresh
    /\ budget = Budget(0, TargetCycles, 0, 0, 0)

\* the polling loop alone
NextTarget == PollStep("scheduled")

SpecTarget == InitTarget /\ [][NextTarget]_vars

\* ------------------------------- one cycle over every comment configuration
\* parameters with generation switched off, without the generation keys, with
\* a quantity range, and with a quantity above the generator's limit
LlmOffParams == [quantity |-> 2, use_llm_generation |-> FALSE,
                 comment_directives |-> "be kind", custom_comments |-> "literal"]
LiteralParams == [quantity |-> 2, custom_comments |-> "literal"]
LlmRangeParams == [quantity |-> 5, use_range |-> TRUE, quantity_min |-> 2,
                   quantity_max |-> 3, use_llm_generation |-> TRUE,
                   comment_directives |-> "be kind", custom_comments |-> "literal"]
LlmBulkParams == [quantity |-> MaxComments + 50, use_llm_generation |-> TRUE,
                  comment_directives |-> "be kind", custom_comments |-> "literal"]

\* one action per account: each condition of the generation met and unmet
LlmConfigs(a) ==
    { Config("active", TRUE, Baselined,
             <<Action(1, a, 200, "Instagram Custom Comments", params)>>) :
        params \in {LlmParams, BlankDirectiveParams, LlmOffParams, LiteralParams,
                    LlmRangeParams, LlmBulkParams} }
    \cup { Config("active", TRUE, Baselined,
                  <<Action(1, a, 100, "Instagram Likes", LlmParams)>>) }

InitLlm ==
    /\ InitWorldOf(FeedIds, {"scheduled"})
    /\ \E cf \in [FeedIds -> UNION {LlmConfigs(a) : a \in FeedIds}] :
         /\ \A a \in FeedIds : cf[a] \in LlmConfigs(a)
         /\ InitConfigured(cf)
    /\ feedItems = [f \in FeedIds |-> <<ItemData("g1", "L1", Some(2 * Day))>>]
    /\ InitNoRefresh
    /\ budget = Budget(0, LlmCycles, 0, 0, 0)

\* the polling loop alone, with the comment generator answering
NextLlm ==
    \/ PollStep("scheduled")
    \/ ExecLlm("scheduled")

SpecLlm == InitLlm /\ [][NextLlm]_vars

\* ------------------------------------------------------------------ claims
LedgerRows(f, g) ==
    {i \in 1..Len(processed_posts) :
        processed_posts[i].feed_id = f /\ processed_posts[i].post_guid = g}

\* C1: at most one processed_posts row exists per (feed_id, post_guid), and
\* trigger_actions_for_post is invoked at most once per such item, also when
\* a scheduled and a manual poll cycle overlap.
C1_ClaimedOnce ==
    /\ \A i, j \in 1..Len(processed_posts) :
          (/\ processed_posts[i].feed_id = processed_posts[j].feed_id
           /\ processed_posts[i].post_guid = processed_posts[j].post_guid) => i = j
    /\ \A c \in BagToSet(triggerCalls) : CopiesIn(c, triggerCalls) = 1

\* two overlapping cycles held the same item as a candidate: one claimed it
\* and triggered, the other met the existing row and moved past the item
C1_Witness ==
    \E p, q \in Pollers :
        /\ p # q
        /\ pc[p] \in {"exec_check", "exec_order", "exec_insert", "post_update"}
        /\ pc[q] = "item"
        /\ poll[q].pi > 1
        /\ poll[q].truly_new = 0
        /\ PostGuid(poll[q].potential[1]) = PostGuid(CurPost(p))
        /\ PostGuid(CurPost(p)) # ""
        /\ CurFeed(p).id = CurFeed(q).id
        /\ Cardinality(LedgerRows(CurFeed(p).id, PostGuid(CurPost(p)))) = 1

\* C2: rss_feeds.last_post_date never decreases, under any interleaving of
\* poll cycles (each working from the feed row it read when poll_all_feeds
\* started) and establish_baseline_for_account calls: every step leaves the
\* stored value greater than or equal to the value it replaces.
C2_WatermarkNeverDecreases ==
    [][\A f \in Feeds :
          ~IsNull(rss_feeds[f].last_post_date) =>
              /\ ~IsNull(rss_feeds'[f].last_post_date)
              /\ Val(rss_feeds'[f].last_post_date) >= Val(rss_feeds[f].last_post_date)]_vars

\* poll_single_feed of caller p completes normally in this step
FeedFinished(p) ==
    /\ pc[p] = "item"
    /\ poll[p].pi > Len(poll[p].potential)
    /\ pc'[p] \in {"sf_parse", "all_commit"}

\* C3: when a poll of one feed accepts at least one truly new item, the
\* watermark it stores is the maximum publish date among the truly new items
\* of that poll plus one second (T0 and one new item at T0+10 give T0+11).
C3_WatermarkIsMaxPlusOne ==
    [][\A p \in Pollers :
          (FeedFinished(p) /\ poll[p].truly_new > 0) =>
              rss_feeds'[CurFeed(p).id].last_post_date =
                  Some(Val(MaxPubDate(poll[p].accepted)) + 1)]_vars

\* the four conditions of C4, and how many of them a feed meets
StatusActive(f) == accounts[AccountOf(f)].rss_status = "active"
AccountEnabled(f) == accounts[AccountOf(f)].enabled
HasBaseline(f) == rss_feeds[f].last_post_date # Null
HasActiveAction(f) ==
    \E i \in 1..Len(actions[AccountOf(f)]) : actions[AccountOf(f)][i].is_active
AllFourHold(f) ==
    StatusActive(f) /\ AccountEnabled(f) /\ HasBaseline(f) /\ HasActiveAction(f)
ConditionsMet(f) ==
    Cardinality({c \in {"status", "enabled", "baseline", "action"} :
        \/ c = "status" /\ StatusActive(f)
        \/ c = "enabled" /\ AccountEnabled(f)
        \/ c = "baseline" /\ HasBaseline(f)
        \/ c = "action" /\ HasActiveAction(f)})

\* feed f is in the selection the cycle of caller p works on
Selected(p, f) ==
    /\ pc[p] # "idle"
    /\ \E i \in 1..Len(poll[p].feeds) : poll[p].feeds[i].id = f

\* this step fetches feed f, inserts a ledger row for it, submits an order
\* for its account or adds a poll-log entry for it
Touches(f) ==
    \/ \E p \in Pollers : pc[p] = "sf_parse" /\ pc'[p] = "sf_new" /\ CurFeed(p).id = f
    \/ /\ Len(processed_posts') > Len(processed_posts)
       /\ processed_posts'[Len(processed_posts')].feed_id = f
    \/ /\ Len(japOrders') > Len(japOrders)
       /\ japOrders'[Len(japOrders')].account_id = AccountOf(f)
    \/ \E r \in BagToSet(rss_poll_log') :
          r.feed_id = f /\ CopiesIn(r, rss_poll_log') > CopiesIn(r, rss_poll_log)

\* C4: poll_all_feeds selects a feed only if at selection time the account's
\* rss_status is 'active', the account is enabled, last_post_date is non-null
\* and the account has an active action; a feed that is not selected is not
\* fetched and gets no ledger row, no order and no poll-log entry.
C4_OnlyEligibleFeedsPolled ==
    [][\A f \in Feeds :
          /\ \A p \in Pollers :
                (pc[p] = "idle" /\ pc'[p] # "idle"
                 /\ \E i \in 1..Len(poll'[p].feeds) : poll'[p].feeds[i].id = f)
                    => AllFourHold(f)
          /\ Touches(f) => \E p \in Pollers : Selected(p, f)]_vars

\* a cycle ran over a feed with items that meets exactly three of the four
\* conditions: it selected nothing and left no trace
C4_Witness ==
    \E p \in Pollers, f \in Feeds :
        /\ ConditionsMet(f) = 3
        /\ feedItems[f] # <<>>
        /\ pc[p] = "idle"
        /\ result[p] # Null
        /\ Val(result[p]).status = "completed"
        /\ Val(result[p]).total_feeds = 0
        /\ processed_posts = <<>>
        /\ japOrders = <<>>
        /\ rss_poll_log = EmptyBag

\* establish_baseline_for_account succeeded for the account of the feed that
\* caller p is polling, and p works from the feed row that baseline wrote
PollsAfterBaseline(p) ==
    /\ pc[p] \notin {"idle", "all_commit"}
    /\ base[CurFeed(p).account_id].last # Null
    /\ Val(base[CurFeed(p).account_id].last).success
    /\ CurFeed(p).last_post_date =
          Val(base[CurFeed(p).account_id].last).latest_post_date

\* the step is one of caller p
StepOf(p) ==
    pc'[p] # pc[p] \/ poll'[p] # poll[p] \/ trig'[p] # trig[p] \/ exec'[p] # exec[p]

\* the poll-log entries this step adds
LoggedNow == {r \in BagToSet(rss_poll_log') :
                 CopiesIn(r, rss_poll_log') > CopiesIn(r, rss_poll_log)}

\* C5: after establish_baseline_for_account succeeded, a poll of the unchanged
\* feed finds no candidate, inserts no processed_posts row, submits no order
\* and logs new_posts = 0, while posts_found is the number of items of the feed.
C5_BaselineSuppresses ==
    [][\A p \in Pollers :
          (PollsAfterBaseline(p) /\ StepOf(p)) =>
              /\ poll'[p].potential = <<>> \/ pc'[p] \in {"idle", "all_commit"}
              /\ processed_posts' = processed_posts
              /\ japOrders' = japOrders
              /\ \A r \in LoggedNow :
                    /\ r.new_posts = 0
                    /\ r.status = "no_new_posts" => r.posts_found = Len(feedItems[r.feed_id])]_vars

\* a feed with dated items and no baseline got its baseline, was then polled,
\* and the poll logged all its items and no new post
C5_Witness ==
    \E p \in Pollers, f \in Feeds :
        /\ base[AccountOf(f)].last # Null
        /\ Val(base[AccountOf(f)].last).success
        /\ rss_feeds[f].last_post_date = Some(Day + 10)
        /\ pc[p] = "idle"
        /\ result[p] # Null
        /\ Val(result[p]).status = "completed"
        /\ Val(result[p]).feeds_processed = 1
        /\ Val(result[p]).total_new_posts = 0
        /\ processed_posts = <<>>
        /\ japOrders = <<>>
        /\ [feed_id |-> f, posts_found |-> Len(feedItems[f]), new_posts |-> 0,
            actions_triggered |-> 0, status |-> "no_new_posts"] \in BagToSet(rss_poll_log)
        /\ Len(feedItems[f]) = FrozenItems

\* execution_history holds a record of the last 24 hours for the account,
\* service and target URL of the execution that caller p is about to check
RecentRecord(p) ==
    \E i \in 1..Len(execution_history) :
        /\ execution_history[i].account_id = Some(trig[p].account.id)
        /\ execution_history[i].service_id = CurAction(p).jap_service_id
        /\ execution_history[i].target_url = TargetUrl(trig[p].account, trig[p].post)
        /\ now - execution_history[i].created_at < Day

\* no two records of one account, service and target URL within 24 hours
OneRecordPerWindow ==
    \A i, j \in 1..Len(execution_history) :
        (/\ i < j
         /\ execution_history[i].account_id = execution_history[j].account_id
         /\ execution_history[i].service_id = execution_history[j].service_id
         /\ execution_history[i].target_url = execution_history[j].target_url)
            => execution_history[j].created_at - execution_history[i].created_at >= Day

C7_OneOrderPerTarget ==
    /\ \A i, j \in 1..Len(japOrders) :
          (/\ japOrders[i].account_id = japOrders[j].account_id
           /\ japOrders[i].service_id = japOrders[j].service_id
           /\ japOrders[i].link = japOrders[j].link) => i = j
    /\ \A i, j \in 1..Len(execution_history) :
          (/\ execution_history[i].account_id = execution_history[j].account_id
           /\ execution_history[i].service_id = execution_history[j].service_id
           /\ execution_history[i].target_url = execution_history[j].target_url
           /\ execution_history[j].created_at - execution_history[i].created_at < Day
           /\ execution_history[i].created_at - execution_history[j].created_at < Day)
              => i = j

\* the action is a comment service set to generate its comments
GeneratesComments(action) ==
    /\ action.service_name = "Instagram Custom Comments"
    /\ "use_llm_generation" \in DOMAIN action.parameters
    /\ action.parameters.use_llm_generation
    /\ "comment_directives" \in DOMAIN action.parameters
    /\ action.parameters.comment_directives \notin {"", "  "}

\* C8: for a comment service with use_llm_generation and non-empty
\* comment_directives, a generation that returns an error or no comment makes
\* the execution return skipped=true without calling create_order or inserting
\* a record; no order of such an action carries its literal custom_comments.
C8_LlmHardFail ==
    [][/\ \A p \in Pollers :
            (/\ pc[p] = "exec_llm"
             /\ StepOf(p)
             /\ GeneratesComments(CurAction(p))
             /\ ~Val(exec'[p].llm_result).success) =>
                /\ Val(exec'[p].last).skipped
                /\ ~Val(exec'[p].last).success
                /\ pc'[p] \in {"exec_check", "post_update"}
                /\ trig'[p].triggered = trig[p].triggered
                /\ japOrders' = japOrders
                /\ execution_history' = execution_history
       /\ \A a \in Feeds : \A i \in 1..Len(actions[a]) :
            GeneratesComments(actions[a][i]) =>
                \A k \in 1..Len(japOrders') :
                    (/\ japOrders'[k].account_id = a
                     /\ japOrders'[k].service_id = actions[a][i].jap_service_id)
                        => japOrders'[k].comments # actions[a][i].parameters.custom_comments]_vars

\* a generation failed after an earlier one succeeded: the execution was
\* skipped, and the one order and record are those of the earlier item
C8_Witness ==
    \E p \in Pollers :
        /\ pc[p] = "post_update"
        /\ GeneratesComments(trig[p].actions[1])
        /\ exec[p].llm_result # Null
        /\ ~Val(exec[p].llm_result).success
        /\ Val(exec[p].last).skipped
        /\ trig[p].triggered = 0
        /\ Len(japOrders) = 1
        /\ japOrders[1].comments = "generated"
        /\ Len(execution_history) = 1

\* quantity q is one that the parameters of an action allow
QuantityAllowed(params, q) ==
    IF "use_range" \in DOMAIN params /\ params.use_range
    THEN params.quantity_min <= q /\ q <= params.quantity_max
    ELSE q = params.quantity

\* C9: with use_range and quantity_min <= quantity_max every execution
\* submits and records a quantity within [quantity_min, quantity_max];
\* without use_range it submits and records exactly the configured quantity.
C9_QuantityResolved ==
    /\ \A k \in 1..Len(japOrders) :
          \A i \in 1..Len(actions[japOrders[k].account_id]) :
              LET action == actions[japOrders[k].account_id][i]
              IN  action.jap_service_id = japOrders[k].service_id =>
                      QuantityAllowed(action.parameters, japOrders[k].quantity)
    /\ \A h \in 1..Len(execution_history) :
          execution_history[h].quantity =
              japOrders[execution_history[h].jap_order_id].quantity

\* two executions of one range action drew the two ends of its range
C9_Witness ==
    \E h, k \in 1..Len(execution_history) :
        /\ execution_history[h].service_id = execution_history[k].service_id
        /\ execution_history[h].quantity = RangeParams.quantity_min
        /\ execution_history[k].quantity = RangeParams.quantity_max
        /\ RangeParams.quantity_min < RangeParams.quantity_max
        /\ \E i \in 1..Len(actions[1]) :
              /\ actions[1][i].jap_service_id = execution_history[h].service_id
              /\ actions[1][i].parameters = RangeParams

\* the 'after' rows of table screenshots for one execution
AfterRows(e) ==
    {i \in 1..Len(screenshots) :
        screenshots[i].execution_id = e /\ screenshots[i].screenshot_type = "after"}

\* C10: refresh_execution_status dispatches an 'after' capture only when the
\* status it read before the update was not 'completed', the refreshed status
\* is 'completed' and no completed 'after' screenshot exists; a refresh that
\* read the status 'completed' dispatches nothing, and an execution never has
\* more than one 'after' row.
C10_AfterCaptureOnce ==
    [][/\ \A r \in Refreshers :
            (rpc[r] = "check" /\ rpc'[r] = "idle") =>
                LET old == refresh[r].old_execution
                IN  /\ capture' # capture =>
                          /\ old # Null
                          /\ Val(old).status # "completed"
                          /\ refresh[r].new_status = "completed"
                          /\ \A i \in AfterRows(Val(old).id) :
                                screenshots[i].status # "completed"
                          /\ Len(capture') = Len(capture) + 1
                    /\ (old # Null /\ Val(old).status = "completed") =>
                          capture' = capture
       /\ \A e \in 1..Len(execution_history) : Cardinality(AfterRows(e)')  <= 1]_vars

\* a record read as 'completed' was refreshed to 'completed' again while its
\* one 'after' screenshot had failed: no second capture was dispatched
C10_Witness ==
    \E r \in Refreshers :
        /\ rpc[r] = "idle"
        /\ refresh[r].old_execution # Null
        /\ Val(refresh[r].old_execution).status = "completed"
        /\ refresh[r].new_status = "completed"
        /\ Len(capture) = 1
        /\ capture[1].pc = "done"
        /\ Cardinality(AfterRows(1)) = 1
        /\ \A i \in AfterRows(1) : screenshots[i].status = "failed"


ShotRows(e, type) ==
    {i \in 1..Len(screenshots) :
        screenshots[i].execution_id = e /\ screenshots[i].screenshot_type = type}

\* the capture threads of (e, type) that created a row or reached the
\* request to the capture API
Capturing(e, type) ==
    {t \in 1..Len(capture) :
        /\ capture[t].execution_id = e
        /\ capture[t].screenshot_type = type
        /\ \/ capture[t].screenshot_id # 0
           \/ capture[t].pc \in {"attempt", "wait"}}

OneNewItem(p) ==
    /\ budget.cycles = ExecCycles - 1
    /\ actions[CurFeed(p).account_id] =
          <<Action(1, CurFeed(p).account_id, 100, "Instagram Likes", FixedParams)>>
    /\ Len(poll[p].potential) = 1
    /\ Get(poll[p].potential[1], "link", "") = "L1"

\* C12: a poll cycle that finds exactly one new item with link L1, for an
\* account with one active action of service 100 and fixed quantity 5, claims
\* the item once and calls trigger_actions_for_post once; the execution ends
\* in success unless the order service refuses the order; when the order is
\* accepted there is exactly one order (100, L1, 5, no comments), exactly one
\* execution_history row (quantity 5, 'pending', 'rss_trigger', L1), and the
\* poll-log entry of the feed says 'success', new_posts 1, actions_triggered 1.
C12_EndToEndTrigger ==
    [][\A p \in Pollers :
          /\ (pc[p] = "post_update" /\ OneNewItem(p) /\ StepOf(p)) =>
                exec[p].last \in {Some(Succeeded(1)), Some(Failed("order error"))}
          /\ (pc[p] = "item" /\ poll[p].pi > Len(poll[p].potential)
                /\ OneNewItem(p) /\ StepOf(p)) =>
                LET f == CurFeed(p).id
                    a == CurFeed(p).account_id
                    g == PostGuid(poll[p].potential[1])
                    n == Len(japOrders)
                IN  /\ pc'[p] = "all_commit"
                    /\ n \in {0, 1}
                    /\ Len(processed_posts') = 1
                    /\ processed_posts'[1] =
                          [feed_id |-> f, post_guid |-> g, post_url |-> "L1",
                           actions_triggered |-> n]
                    /\ triggerCalls = SetToBag({[feed_id |-> f, post_guid |-> g]})
                    /\ Len(execution_history) = n
                    /\ n = 1 =>
                          /\ japOrders[1] = [service_id |-> 100, link |-> "L1",
                                             quantity |-> 5, comments |-> "",
                                             account_id |-> a]
                          /\ execution_history[1].jap_order_id = 1
                          /\ execution_history[1].quantity = 5
                          /\ execution_history[1].status = "pending"
                          /\ execution_history[1].execution_type = "rss_trigger"
                          /\ execution_history[1].target_url = "L1"
                          /\ execution_history[1].service_id = 100
                    /\ rss_poll_log' = AddRow(rss_poll_log,
                          [feed_id |-> f, posts_found |-> poll[p].total_posts_count,
                           new_posts |-> 1, actions_triggered |-> n,
                           status |-> "success"])]_vars

\* the first cycle found one item with link L1, the order was accepted, and
\* the feed's poll ended with its 'success' entry
C12_Witness ==
    \E p \in Pollers, f \in Feeds :
        /\ pc[p] = "all_commit"
        /\ budget.cycles = ExecCycles - 1
        /\ actions[AccountOf(f)] =
              <<Action(1, AccountOf(f), 100, "Instagram Likes", FixedParams)>>
        /\ Len(japOrders) = 1
        /\ japOrders[1].link = "L1"
        /\ Len(execution_history) = 1
        /\ Len(processed_posts) = 1
        /\ processed_posts[1].actions_triggered = 1
        /\ \E k \in 0..ExecItems :
              [feed_id |-> f, posts_found |-> k, new_posts |-> 1,
               actions_triggered |-> 1, status |-> "success"] \in BagToSet(rss_poll_log)


\* the item that poller p is about to claim is new to the ledger
UnclaimedItem(p) ==
    /\ pc[p] = "item"
    /\ poll[p].pi <= Len(poll[p].potential)
    /\ PostGuid(CurPost(p)) # ""
    /\ ~ClaimConflict(processed_posts, CurFeed(p).id, PostGuid(CurPost(p)))

\* C13: within one cycle of the background loop, a feed polled after another
\* feed of the cycle failed is processed as if no feed had failed: each new
\* item it found is claimed, and its poll ends with its own poll-log entry
\* (not an 'error' entry) and with last_checked written.
C13_FailureIsolated ==
    [][\A p \in Pollers :
          (poll[p].errors # <<>> /\ pc[p] = "item" /\ StepOf(p)) =>
              /\ UnclaimedItem(p) => Len(processed_posts') = Len(processed_posts) + 1
              /\ pc'[p] # "all_error"]_vars


\* C14: in trigger_actions_for_post the loop over the active actions starts
\* with a count of zero, goes on to the next action whatever an execution
\* returned (success, skipped, failed or an exception turned into a failure),
\* adds one to the count exactly when the execution returned success, and
\* returns only after every active action was executed.
C14_ActionFailureIsolated ==
    [][\A p \in Pollers :
          /\ (pc[p] = "trig" /\ StepOf(p)) =>
                trig'[p].triggered = 0 /\ trig'[p].ai = 1
          /\ (pc[p] \in {"exec_check", "exec_llm", "exec_order", "exec_insert"}
                /\ trig'[p].ai # trig[p].ai) =>
                /\ trig'[p].ai = trig[p].ai + 1
                /\ exec'[p].last # Null
                /\ trig'[p].triggered =
                      trig[p].triggered + (IF Val(exec'[p].last).success THEN 1 ELSE 0)
                /\ pc'[p] = IF trig[p].ai < Len(trig[p].actions)
                            THEN "exec_check" ELSE "post_update"
          /\ (pc[p] = "post_update" /\ StepOf(p)) =>
                /\ trig[p].ai = Len(trig[p].actions) + 1
                /\ poll'[p].actions_triggered =
                      poll[p].actions_triggered + trig[p].triggered]_vars

\* of two active actions the first one's order was refused and the second
\* one's order was placed: the count returned is one
C14_Witness ==
    \E p \in Pollers :
        /\ pc[p] = "post_update"
        /\ Len(trig[p].actions) = 2
        /\ trig[p].ai = 3
        /\ trig[p].triggered = 1
        /\ Len(japOrders) = 1
        /\ japOrders[1].service_id = trig[p].actions[2].jap_service_id
        /\ Len(execution_history) = 1


\* the _polling_loop threads that are live: created and not ended
LiveLoops == {t \in LoopThreads : ThreadAlive(t)}

\* C15: after any sequence of start_polling and stop_polling calls at most
\* one _polling_loop thread is live, and no two of them are in a poll cycle
\* at the same time.
C15_OneLoopThread ==
    /\ Cardinality(LiveLoops) <= 1
    /\ \A t, u \in LoopThreads : (pc[t] # "idle" /\ pc[u] # "idle") => t = u


\* a stop_polling call takes a step
StopStep == (is_running /\ ~is_running') \/ stopping' # stopping

C17_LoopSurvivesException ==
    [][\A t \in LoopThreads :
          (loop'[t] # loop[t]) =>
              /\ loop[t].pc = "cycle" =>
                    /\ loop'[t].pc = "sleep"
                    /\ loop'[t].wait = IF Val(result[t]).status = "exception"
                                       THEN ErrorCooldown ELSE PollingInterval
              /\ loop[t].pc = "sleep" => loop'[t].pc = "while"
              /\ (loop[t].pc = "while" /\ is_running) =>
                    /\ loop'[t].pc = "cycle"
                    /\ result'[t] = Null
                    /\ budget'.cycles = budget.cycles - 1
              /\ loop'[t].pc = "ended" => (loop[t].pc = "while" /\ ~is_running)]_vars

\* poll_all_feeds raised in a loop thread while the service kept running:
\* the thread sleeps the cooldown
C17_Witness ==
    \E t \in LoopThreads :
        /\ is_running
        /\ loop[t] = [pc |-> "sleep", wait |-> ErrorCooldown]
        /\ pc[t] = "idle"
        /\ result[t] = Some([status |-> "exception"])

\* ---- C18
\* a step in which establish_baseline_for_account commits a baseline for a
Established(a) ==
    /\ base[a].pc = "write"
    /\ base'[a].pc = "idle"
    /\ Val(base'[a].last).success

\* no baseline call is under way for the account and none has failed
BaselineSettled(a) ==
    /\ base[a].pc = "idle"
    /\ (IsNull(base[a].last) \/ Val(base[a].last).success)

\* C18: over creations, deletions, copies and baseline requests, an account
\* that has an action has a baseline, and no baseline is committed for an
\* account that already has one
C18_BaselineOnce ==
    /\ [](\A a \in Feeds :
            (actions[a] # <<>> /\ BaselineSettled(a)) => HasBaseline(a))
    /\ [][\A a \in Feeds : Established(a) => ~HasBaseline(a)]_vars

\* ---- C19
\* the parseable publish dates of a document
ParseableDates(doc) ==
    {Val(doc[i].pub_date) : i \in {j \in DOMAIN doc : ~IsNull(doc[j].pub_date)}}

\* the baseline of a document at time t: its latest parseable date, else t
ExpectedBaseline(doc, t) ==
    IF ParseableDates(doc) = {} THEN t
    ELSE CHOOSE m \in ParseableDates(doc) : \A d \in ParseableDates(doc) : d <= m

\* a step in which establish_baseline_for_account returns failure for a
BaselineFailed(a) ==
    /\ BaselineFetch(a) \/ BaselineWrite(a)
    /\ base'[a].pc = "idle"
    /\ ~Val(base'[a].last).success

\* C19: a baseline that succeeds stores the latest parseable publish date of
\* the document, or the current time when there is none, as the account's
\* rss_last_post and as the feed's last_post_date; one that fails leaves both
C19_BaselineStored ==
    [][\A a \in Feeds :
         /\ Established(a) =>
              /\ accounts'[a].rss_last_post = Some(ExpectedBaseline(feedItems[a], now))
              /\ rss_feeds'[a].last_post_date = Some(ExpectedBaseline(feedItems[a], now))
         /\ BaselineFailed(a) =>
              /\ accounts'[a].rss_last_post = accounts[a].rss_last_post
              /\ rss_feeds'[a].last_post_date = rss_feeds[a].last_post_date]_vars

\* a baseline was taken from a document whose latest date is not on its first
\* item
C19_Witness ==
    \E a \in Feeds :
        /\ base[a].pc = "idle"
        /\ ~IsNull(base[a].last)
        /\ Val(base[a].last).success
        /\ Len(feedItems[a]) = 2
        /\ ~IsNull(feedItems[a][1].pub_date)
        /\ ~IsNull(feedItems[a][2].pub_date)
        /\ Val(feedItems[a][2].pub_date) > Val(feedItems[a][1].pub_date)
        /\ accounts[a].rss_last_post = feedItems[a][2].pub_date
        /\ rss_feeds[a].last_post_date = feedItems[a][2].pub_date

\* ---- C20
\* C20: when the order service accepts every order, the poll that claims a
\* post of an account with two active actions has, once the loop over the
\* actions is over, submitted one order for the first action and one for the
\* second, and counts two actions triggered, also when both actions use the
\* same service id
C20_EveryActionOrdered ==
    \A p \in Pollers :
        (pc[p] = "post_update" /\ Len(trig[p].actions) = 2) =>
            /\ trig[p].triggered = 2
            /\ Len(japOrders) = 2
            /\ \A k \in 1..2 :
                 /\ japOrders[k].service_id = trig[p].actions[k].jap_service_id
                 /\ japOrders[k].account_id = trig[p].account.id
                 /\ japOrders[k].link = TargetUrl(trig[p].account, trig[p].post)

\* ---- C21
\* C21: whatever a call of poll_all_feeds met, it returned its summary
\* (status 'completed', counts and error list), and whatever an execution met,
\* execute_rss_triggered_action returned a dict with a success flag; neither
\* ended in an exception at its caller
C21_StructuredResults ==
    \A p \in Pollers :
        /\ ~IsNull(result[p]) =>
              /\ Val(result[p]).status = "completed"
              /\ {"feeds_processed", "total_new_posts", "total_actions_triggered",
                  "errors"} \subseteq DOMAIN Val(result[p])
        /\ ~IsNull(exec[p].last) => "success" \in DOMAIN Val(exec[p].last)

LedgerHas(f, g) ==
    \E i \in 1..Len(processed_posts) :
        processed_posts[i].feed_id = f /\ processed_posts[i].post_guid = g

\* C23: every order is submitted by an execution for an item whose
\* processed_posts row is already committed, hence visible to every connection
C23_ClaimBeforeOrder ==
    [][japOrders' # japOrders =>
          \E p \in Pollers :
              /\ pc[p] = "exec_order"
              /\ pc'[p] = "exec_insert"
              /\ LedgerHas(CurFeed(p).id, PostGuid(trig[p].post))]_vars

\* an order was submitted for an item while the other caller was inside a
\* cycle of its own
C23_Witness ==
    /\ japOrders # <<>>
    /\ \E p, q \in Pollers :
         /\ pc[p] = "exec_insert"
         /\ LedgerHas(CurFeed(p).id, PostGuid(trig[p].post))
         /\ q # p
         /\ pc[q] # "idle"

\* ---- C24
\* caller p takes a step on a candidate whose row is already in the ledger
ConflictStep(p) ==
    /\ pc[p] = "item"
    /\ poll[p].pi <= Len(poll[p].potential)
    /\ PostGuid(CurPost(p)) # ""
    /\ ClaimConflict(processed_posts, CurFeed(p).id, PostGuid(CurPost(p)))
    /\ StepOf(p)

\* caller p ends its poll of a feed with the poll-log entry
FinishStep(p) ==
    /\ pc[p] = "item"
    /\ poll[p].pi > Len(poll[p].potential)
    /\ StepOf(p)
    /\ rss_poll_log' # rss_poll_log

\* C24: a candidate that is already in the ledger is passed over: no trigger,
\* no order, no ledger change, no new post counted, no error recorded, and the
\* loop goes on with the next candidate; the new_posts of the poll-log entry
\* is the number of rows the poll inserted, and the entry is no error
C24_ConflictSkipped ==
    [][\A p \in Pollers :
         /\ ConflictStep(p) =>
              /\ pc'[p] = "item"
              /\ poll'[p].pi = poll[p].pi + 1
              /\ poll'[p].truly_new = poll[p].truly_new
              /\ poll'[p].errors = poll[p].errors
              /\ triggerCalls' = triggerCalls
              /\ japOrders' = japOrders
              /\ processed_posts' = processed_posts
         /\ FinishStep(p) =>
              \A r \in LoggedNow :
                  /\ r.new_posts = Len(poll[p].accepted)
                  /\ \A i \in 1..Len(poll[p].accepted) :
                        LedgerHas(CurFeed(p).id, PostGuid(poll[p].accepted[i]))
                  /\ r.status = IF r.new_posts = 0 THEN "no_new_posts" ELSE "success"]_vars

\* the first candidate was in the ledger and was passed over, the second was
\* claimed and its actions were triggered
C24_Witness ==
    \E p \in Pollers :
        /\ pc[p] = "post_update"
        /\ Len(poll[p].potential) = 2
        /\ poll[p].pi = 2
        /\ poll[p].truly_new = 1
        /\ triggerCalls = SetToBag({[feed_id |-> CurFeed(p).id,
                                     post_guid |-> PostGuid(poll[p].potential[2])]})
        /\ LedgerHas(CurFeed(p).id, PostGuid(poll[p].potential[1]))

\* ---- C25
\* C25: a poll of a feed that ends with its poll-log entry sets last_checked
\* to the current time; when it accepted no item it leaves last_post_date as
\* it is in the store and its entry says 'no_new_posts' with new_posts 0
C25_NoNewPostsFrame ==
    [][\A p \in Pollers :
         FinishStep(p) =>
           LET f == CurFeed(p).id
           IN  /\ rss_feeds'[f].last_checked = Some(now)
               /\ poll[p].truly_new = 0 =>
                    /\ rss_feeds'[f].last_post_date = rss_feeds[f].last_post_date
                    /\ \A r \in LoggedNow :
                         /\ r.feed_id = f
                         /\ r.status = "no_new_posts"
                         /\ r.new_posts = 0
                         /\ r.posts_found = Len(feedItems[f])]_vars

\* a poll found both items of the document in the ledger and ended: the
\* baseline is still the feed's last_post_date, last_checked is the time of
\* the poll
C25_Witness ==
    \E f \in Feeds :
        /\ rss_feeds[f].last_post_date = Baselined
        /\ rss_feeds[f].last_checked = Some(now)
        /\ \E r \in BagToSet(rss_poll_log) :
              r.feed_id = f /\ r.status = "no_new_posts" /\ r.posts_found = 2

\* ---- C26
\* C26: whenever a poll inserts the ledger row of an item and hands the item
\* to trigger_actions_for_post, the item's publish date is after the
\* last_post_date the store holds for the feed at that moment
C26_NothingAtOrBeforeWatermark ==
    [][\A p \in Pollers :
         (pc[p] = "item" /\ pc'[p] = "trig") =>
           LET f == CurFeed(p).id
               d == Get(CurPost(p), "pub_date", Null)
           IN  ~IsNull(rss_feeds[f].last_post_date) =>
                  /\ ~IsNull(d)
                  /\ Val(d) > Val(rss_feeds[f].last_post_date)]_vars

\* ---- C27
\* the post's link, else the account's stored URL, else the profile URL
ResolvedTarget(account, post) ==
    IF Get(post, "link", "") # "" THEN post.link
    ELSE IF account.url # "" THEN account.url
    ELSE "https://instagram.com/user"

\* C27: the target URL of an execution, the link of every order and the
\* target_url of every ExecutionRecord is the post's link when there is one,
\* else the account's stored URL when there is one, else the profile URL; it
\* is never empty
C27_TargetResolved ==
    /\ \A p \in Pollers :
          pc[p] \in {"exec_llm", "exec_order", "exec_insert"} =>
              /\ exec[p].target_url = ResolvedTarget(trig[p].account, trig[p].post)
              /\ exec[p].target_url # ""
    /\ \A i \in 1..Len(japOrders) : japOrders[i].link # ""
    /\ \A i \in 1..Len(execution_history) : execution_history[i].target_url # ""

\* ---- C28
\* caller p takes its step at create_order and no order is accepted
RefusedStep(p) ==
    /\ pc[p] = "exec_order"
    /\ StepOf(p)
    /\ japOrders' = japOrders

\* C28: when create_order answers with an error the execution returns
\* success false with the error and not skipped, no ExecutionRecord is
\* inserted, the action is not counted, and the loop over the actions goes on
C28_OrderErrorNotSkipped ==
    [][\A p \in Pollers :
         RefusedStep(p) =>
            /\ ~IsNull(exec'[p].last)
            /\ ~Val(exec'[p].last).success
            /\ ~Val(exec'[p].last).skipped
            /\ Val(exec'[p].last).error = "order error"
            /\ execution_history' = execution_history
            /\ trig'[p].triggered = trig[p].triggered
            /\ pc'[p] \in {"exec_check", "post_update"}]_vars

\* the order for a claimed item was refused: no order, no ExecutionRecord, no
\* action counted
C28_Witness ==
    \E p \in Pollers :
        /\ pc[p] = "post_update"
        /\ exec[p].last = Some(Failed("order error"))
        /\ trig[p].triggered = 0
        /\ japOrders = <<>>
        /\ execution_history = <<>>
        /\ LedgerHas(CurFeed(p).id, PostGuid(trig[p].post))

\* ---- C29
\* C29: an execution calls the comment generator exactly when its action is a
\* comment service with use_llm_generation and directives that are not blank;
\* an order of such an action carries the generated comments and not the
\* literal custom_comments, an order of any other action carries the literal
\* custom_comments, or none
C29_GenerationIffConfigured ==
    [][\A p \in Pollers :
         /\ (pc[p] = "exec_check" /\ pc'[p] \in {"exec_llm", "exec_order"}) =>
               (pc'[p] = "exec_llm" <=> GeneratesComments(CurAction(p)))
         /\ (pc[p] = "exec_order" /\ ~GeneratesComments(CurAction(p))) =>
               llmCalls = EmptyBag
         /\ (StepOf(p) /\ llmCalls' # llmCalls) =>
               (pc[p] = "exec_llm" /\ GeneratesComments(CurAction(p)))
         /\ (pc[p] = "exec_order" /\ japOrders' # japOrders) =>
               LET order == japOrders'[Len(japOrders')]
                   params == CurAction(p).parameters
               IN  IF GeneratesComments(CurAction(p))
                   THEN /\ order.comments = Val(exec[p].llm_result).comments
                        /\ order.comments # params.custom_comments
                   ELSE order.comments = Get(params, "custom_comments", "")]_vars

\* an order went out with generated comments for an action that also holds
\* literal custom_comments
C29_Witness ==
    \E a \in Feeds :
        /\ GeneratesComments(actions[a][1])
        /\ actions[a][1].parameters.custom_comments = "literal"
        /\ llmCalls # EmptyBag
        /\ Len(japOrders) = 1
        /\ japOrders[1].comments = "generated"

\* ---- C30
\* the requests this step adds to those the comment generator received
RequestedNow == {r \in BagToSet(llmCalls') :
                    CopiesIn(r, llmCalls') > CopiesIn(r, llmCalls)}

\* C30: every request to the comment generator asks for as many comments as
\* the quantity the execution resolved, which is the quantity of its order
C30_CommentCountIsQuantity ==
    [][\A p \in Pollers :
         /\ (pc[p] = "exec_llm" /\ StepOf(p)) =>
               /\ RequestedNow # {}
               /\ \A r \in RequestedNow : r.comment_count = exec[p].quantity
         /\ (pc[p] = "exec_order" /\ japOrders' # japOrders) =>
               japOrders'[Len(japOrders')].quantity = exec[p].quantity]_vars

\* ---- C33
\* C33: in every reachable state the status of every execution_history row is
\* one of preparing, pending, in_progress, completed, partial, canceled, failed,
\* whatever the order service answers to a refresh request.
ExecutionStatuses ==
    {"preparing", "pending", "in_progress", "completed", "partial", "canceled",
     "failed"}

C33_StatusInVocabulary ==
    \A i \in 1..Len(execution_history) :
        execution_history[i].status \in ExecutionStatuses

\* ---- C36
\* C36: no thread holds an uncommitted write on the store while one of its
\* external calls (feed fetch, comment generation, order submission) is in
\* flight; in particular the poll_all_feeds connection holds none while the
\* later feeds of the cycle are fetched.
ExternalCallPcs == {"sf_parse", "sf_new", "exec_llm", "exec_order"}

HoldsWrite(p) == dbLock # NoLock /\ dbLock[1] = p

C36_NoWriteAcrossExternalCall ==
    \A p \in Pollers : pc[p] \in ExternalCallPcs => ~HoldsWrite(p)

\* ---- C40
\* C40: in the result poll_all_feeds returns, feeds_processed plus the number
\* of errors is total_feeds, and total_new_posts and total_actions_triggered are
\* the sums of new_posts and actions_triggered over the feeds processed (the
\* per-feed results are the rows poll_single_feed wrote to rss_poll_log).
RECURSIVE SumRows(_, _, _)
SumRows(rows, bag, field) ==
    IF rows = {} THEN 0
    ELSE LET r == CHOOSE x \in rows : TRUE
         IN  CopiesIn(r, bag) * r[field] + SumRows(rows \ {r}, bag, field)

RECURSIVE CountRows(_, _)
CountRows(rows, bag) ==
    IF rows = {} THEN 0
    ELSE LET r == CHOOSE x \in rows : TRUE
         IN  CopiesIn(r, bag) + CountRows(rows \ {r}, bag)

PolledRows == {r \in BagToSet(rss_poll_log) : r.status # "error"}

\* the result of the first cycle of the behaviour is at hand
FirstResult(p) ==
    /\ budget.cycles = FeedsCycles - 1
    /\ ~IsNull(result[p])
    /\ Val(result[p]).status = "completed"

C40_TotalsAreSums ==
    \A p \in Pollers :
        FirstResult(p) =>
            LET r == Val(result[p])
            IN  /\ r.feeds_processed + Len(r.errors) = r.total_feeds
                /\ r.feeds_processed = CountRows(PolledRows, rss_poll_log)
                /\ r.total_new_posts = SumRows(PolledRows, rss_poll_log, "new_posts")
                /\ r.total_actions_triggered =
                      SumRows(PolledRows, rss_poll_log, "actions_triggered")

C40_Witness ==
    \E p \in Pollers :
        /\ FirstResult(p)
        /\ Val(result[p]).total_new_posts = 1
        /\ Len(Val(result[p]).errors) = 1

\* ---- C38
\* C38: every order the order service accepted for an RSS-triggered execution
\* has an execution_history row carrying its order id once
\* execute_rss_triggered_action has returned.
OrderRecorded(o) ==
    \E i \in 1..Len(execution_history) : execution_history[i].jap_order_id = o

\* the execution that placed order o has not returned yet
OrderInFlight(o) ==
    \E p \in Pollers : pc[p] = "exec_insert" /\ exec[p].order = o

C38_OrderHasRecord ==
    \A o \in 1..Len(japOrders) : OrderRecorded(o) \/ OrderInFlight(o)

\* ---- C37
\* the invocations of trigger_actions_for_post for item g of feed f so far
TriggeredTimes(f, g) == CopiesIn([feed_id |-> f, post_guid |-> g], triggerCalls)

\* C37: an item is handed to trigger_actions_for_post only by the poll that
\* has just inserted its ledger row: an item that already has a row when a
\* poll meets it, or that was handed over before, is never handed over again,
\* whatever actions_triggered the row carries.
C37_NoRetryAfterClaim ==
    [][\A p \in Pollers :
          (pc[p] = "trig" /\ triggerCalls' # triggerCalls) =>
              LET f == CurFeed(p).id
                  g == PostGuid(CurPost(p))
              IN  /\ TriggeredTimes(f, g) = 0
                  /\ Cardinality(LedgerRows(f, g)) = 1
                  /\ poll[p].accepted # <<>>
                  /\ PostGuid(poll[p].accepted[Len(poll[p].accepted)]) = g]_vars

\* a later poll went past an item whose claim had triggered nothing
C37_Witness ==
    \E p \in Pollers :
        /\ pc[p] = "item"
        /\ poll[p].potential # <<>>
        /\ poll[p].pi > Len(poll[p].potential)
        /\ poll[p].truly_new = 0
        /\ \E i \in 1..Len(poll[p].potential) :
             LET g == PostGuid(poll[p].potential[i])
             IN  /\ TriggeredTimes(CurFeed(p).id, g) = 1
                 /\ \E j \in LedgerRows(CurFeed(p).id, g) :
                       processed_posts[j].actions_triggered = 0

\* ---- C39
\* the item is in processed_posts and was handed to trigger_actions_for_post
Processed(f, g) == LedgerHas(f, g) /\ TriggeredTimes(f, g) > 0

\* C39: if the background loop keeps running, an item with an identity and a
\* publish date later than the watermark, held by a feed that stays eligible
\* and whose fetches succeed, is recorded in processed_posts and handed to
\* action execution in the end.
C39_ItemProcessedInTheEnd ==
    <>[]is_running => <>Processed(HealthyFeed, "g1")

\* ---- C31
\* quick_execute_action of thread q calls create_order in this step
QuickOrderCall(q) == rpc[q] = "q_order" /\ rpc'[q] = "q_update"

\* the record of the attempt of q is inserted with status 'preparing' and the
\* 'before' capture made for its id has returned
PreparedAndCaptured(q) ==
    /\ ~IsNull(refresh[q].execution_id)
    /\ \E i \in 1..Len(execution_history) :
         /\ execution_history[i].id = Val(refresh[q].execution_id)
         /\ execution_history[i].status = "preparing"
    /\ refresh[q].before \in 1..Len(capture)
    /\ capture[refresh[q].before].execution_id = Val(refresh[q].execution_id)
    /\ capture[refresh[q].before].screenshot_type = "before"
    /\ capture[refresh[q].before].pc = "done"

\* C31: quick_execute_action calls create_order only after the record was
\* inserted with status 'preparing' and the 'before' capture for its id ran to
\* its end, and a capture that failed does not keep the order from being
\* submitted: a request that got past comment generation returns only after
\* create_order was called.
C31_RecordCaptureOrder ==
    [][\A q \in DOMAIN rpc :
          /\ QuickOrderCall(q) => PreparedAndCaptured(q)
          /\ (rpc[q] = "q_update" /\ rpc'[q] = "idle") =>
                refresh[q].order_response # <<>>]_vars

\* ---- C32
\* the record of the last attempt of thread q
QuickRecords(q) ==
    {i \in 1..Len(execution_history) :
        execution_history[i].id = Val(refresh[q].execution_id)}

\* C32: once quick_execute_action has returned, the record it created before
\* the order call is 'pending' with the order id when the order was accepted
\* and 'failed' with a FAILED_<timestamp> order id when the order service
\* answered an error; it is one record, and it is not 'preparing'.
C32_RecordSettled ==
    \A q \in DOMAIN rpc :
        (rpc[q] = "idle" /\ ~IsNull(refresh[q].execution_id)) =>
            /\ Cardinality(QuickRecords(q)) = 1
            /\ \A i \in QuickRecords(q) :
                 LET row == execution_history[i]
                     response == refresh[q].order_response
                 IN  /\ row.status # "preparing"
                     /\ "order" \in DOMAIN response =>
                           row.status = "pending" /\ row.jap_order_id = response.order
                     /\ "error" \in DOMAIN response =>
                           row.status = "failed" /\ row.jap_order_id < 0

\* ---- C34
\* the Screenshot row of capture call t is completed in shots
ShotCompleted(shots, t) ==
    \E i \in 1..Len(shots) :
        shots[i].id = capture[t].screenshot_id /\ shots[i].status = "completed"

\* C34: a capture_screenshot call sends at most max_retries (3) requests to
\* the capture API, at most one per attempt; before attempt k + 1 it has slept
\* k x retry_delay after each failed attempt k; the attempt that succeeds ends
\* the call, the third failed attempt ends it with a failure and no further
\* request, and a call that has returned does nothing more.
C34_AtMostThreeRequests ==
    [][\A t \in 1..Len(capture) :
          LET c == capture[t]
              d == capture'[t]
          IN  /\ d.requests <= MaxRetries
              /\ d.requests <= d.attempt + 1
              /\ Len(d.slept) = d.attempt
              /\ \A k \in 1..Len(d.slept) : d.slept[k] = k * RetryDelay
              /\ c.pc = "done" => d = c
              /\ (c.pc = "wait" /\ d # c /\ ShotCompleted(screenshots', t)) =>
                    /\ d.pc = "done"
                    /\ d.success = Some(TRUE)
                    /\ d.requests = c.requests
              /\ (c.pc = "retry" /\ d # c /\ c.attempt = MaxRetries - 1) =>
                    /\ d.pc = "done"
                    /\ d.success = Some(FALSE)
                    /\ d.requests = c.requests]_vars

\* a call that failed three times, with its two sleeps, and returned
C34_Witness ==
    \E t \in 1..Len(capture) :
        /\ capture[t].pc = "done"
        /\ capture[t].success = Some(FALSE)
        /\ capture[t].requests = MaxRetries
        /\ capture[t].slept = <<RetryDelay, 2 * RetryDelay>>

\* ---- C35
\* the Screenshot rows that capture call t created
CreatedRows(t) == {i \in 1..Len(screenshots) : screenshots[i].id = capture[t].screenshot_id}

\* C35: when a capture_screenshot call that created a Screenshot row has
\* returned, the row is 'completed' if the call returned success and 'failed'
\* if it did not: it is never left 'pending' or 'capturing'.
C35_RowFinalAfterReturn ==
    \A t \in 1..Len(capture) :
        (capture[t].pc = "done" /\ capture[t].screenshot_id # 0) =>
            \A i \in CreatedRows(t) :
                /\ screenshots[i].status \in {"completed", "failed"}
                /\ screenshots[i].status = "completed" <=> capture[t].success = Some(TRUE)

====
